---- MODULE Spec2Model ----
(***************************************************************************)
(* A model of the value-discovery agent (dgavranic/value-discovery-agent). *)
(*                                                                         *)
(*  - the Knowledge Extractor (extract_knowledge) and the Knowledge Store  *)
(*    (update_knowledge_map, calculate_value_weights) of meta_agent_v3 and *)
(*    meta_agent_v4;                                                       *)
(*  - the v4 conversation controller: the LangGraph graph of               *)
(*    meta_agent_v4/graph.py, one action per node, each action followed by *)
(*    the edge (or conditional edge) that leaves the node.                 *)
(*                                                                         *)
(* Texts whose characters matter (goal and value texts) are sequences of   *)
(* one-character strings, so that lower(), strip(), len() and substring    *)
(* containment are computed.  Weights are IEEE-754 doubles, held as the    *)
(* exact integer w * 2^56 split in two limbs <<hi, lo>> of 28 bits.        *)
(***************************************************************************)
EXTENDS Integers, Sequences, FiniteSets, TLC

(***************************************************************************)
(* Bounds of the model (not program constants).                            *)
(***************************************************************************)
\* user turns a stage may run past its ceiling before the user stops replying
MaxOver == 1
\* the client runs the graph again for a message whose run has ended without
\* an answer while the message has been merged fewer than MaxMerges times
MaxMerges == 2
\* merges / recomputes applied in the store specification
MaxStoreOps == 4
\* the empty texts a user sends in a session
MaxEmptyTexts == 1
\* bundles merged one after another in the specification of repeated mentions
MaxMentions == 7

(***************************************************************************)
(* Program constants.                                                      *)
(***************************************************************************)
\* ceilings of the deterministic fallback rules of the v4 validators
RapportCeiling == 8
ValueDiscoveryCeiling == 10
ActionPlanningCeiling == 7
\* turn minimums of the fallback rules
RapportMinTurns == 5
ValueDiscoveryMinTurns == 6
ActionPlanningMinTurns == 4
\* count minimums of the fallback rules
MinGoals == 1
MinValues == 3
MinActions == 3
\* fallback of validate_summary_node: turn_count >= 2
SummaryMaxTurns == 2
\* update_knowledge_map: len(goal_text) > 5, len(value_text) > 2
GoalMinLen == 5
ValueMinLen == 2
\* action_planning_node: 20 <= len(action_text) <= 300
ActionMinLen == 20
ActionMaxLen == 300

(***************************************************************************)
(* IEEE-754 doubles in [0, 4): x is held as <<hi, lo>> with                *)
(* x = (hi * 2^28 + lo) * 2^-56 and 0 <= lo < 2^28.  Every double that is  *)
(* zero or at least 2^-4 is a multiple of 2^-56.                           *)
(***************************************************************************)
Limb == 2^28

FZero == <<0, 0>>
\* 0.1 = 0x1.999999999999ap-4
F0_1 == <<26843545, 161061274>>
\* 0.15 = 0x1.3333333333333p-3
F0_15 == <<40265318, 107374182>>
\* 0.2 = 0x1.999999999999ap-3
F0_2 == <<53687091, 53687092>>
\* 0.3 = 0x1.3333333333333p-2
F0_3 == <<80530636, 214748364>>
\* 0.5
F0_5 == <<134217728, 0>>
\* 1.0
F1_0 == <<268435456, 0>>

FloatLE(a, b) == a[1] < b[1] \/ (a[1] = b[1] /\ a[2] <= b[2])

\* Python's min(a, b) on floats: b if b < a else a
FloatMin(a, b) == IF FloatLE(a, b) THEN a ELSE b

\* the unit in the last place of the binade of an exact value, in units of 2^-56
Ulp(hi) ==
    IF hi >= 2 * Limb THEN 32
    ELSE IF hi >= Limb THEN 16
    ELSE IF hi >= Limb \div 2 THEN 8
    ELSE IF hi >= Limb \div 4 THEN 4
    ELSE IF hi >= Limb \div 8 THEN 2
    ELSE 1

\* carry a low limb that left [0, 2^28) into the high limb
Normalize(hi, lo) == <<hi + (lo \div Limb), lo % Limb>>

\* round an exact value to the nearest double, ties to even
RoundToDouble(v) ==
    LET q == Ulp(v[1])
        r == v[2] % q
        down == v[2] - r
        up == down + q
        lowEven == (down \div q) % 2 = 0
    IN  IF r = 0 THEN v
        ELSE IF 2 * r < q THEN <<v[1], down>>
        ELSE IF 2 * r > q THEN Normalize(v[1], up)
        ELSE IF lowEven THEN <<v[1], down>>
        ELSE Normalize(v[1], up)

\* a + b in double arithmetic
FloatAdd(a, b) == RoundToDouble(Normalize(a[1] + b[1], a[2] + b[2]))

\* n * a in double arithmetic, n a small natural number (int * float)
FloatMulNat(n, a) == RoundToDouble(Normalize(n * a[1], n * a[2]))

(***************************************************************************)
(* Strings as sequences of characters.                                     *)
(***************************************************************************)
UpperCase ==
    <<"A", "B", "C", "D", "E", "F", "G", "H", "I", "J", "K", "L", "M",
      "N", "O", "P", "Q", "R", "S", "T", "U", "V", "W", "X", "Y", "Z">>

LowerCase ==
    <<"a", "b", "c", "d", "e", "f", "g", "h", "i", "j", "k", "l", "m",
      "n", "o", "p", "q", "r", "s", "t", "u", "v", "w", "x", "y", "z">>

LowerChar(c) ==
    IF \E i \in DOMAIN UpperCase : UpperCase[i] = c
    THEN LowerCase[CHOOSE i \in DOMAIN UpperCase : UpperCase[i] = c]
    ELSE c

\* str.lower()
Lower(s) == [i \in DOMAIN s |-> LowerChar(s[i])]

IsSpace(c) == c = " "

\* str.strip()
Strip(s) ==
    LET idx == {i \in DOMAIN s : ~IsSpace(s[i])}
    IN  IF idx = {} THEN <<>>
        ELSE LET first == CHOOSE i \in idx : \A j \in idx : i <= j
                 last == CHOOSE i \in idx : \A j \in idx : j <= i
             IN  SubSeq(s, first, last)

\* Python's `a in b` on strings: a occurs in b as a contiguous substring
IsSubstring(a, b) ==
    \E k \in 0..(Len(b) - Len(a)) : SubSeq(b, k + 1, k + Len(a)) = a

\* Python's `x in xs` on a list
InList(x, xs) == \E i \in DOMAIN xs : xs[i] = x

(***************************************************************************)
(* User texts.  A message's content is the index k of its text; TextOf(k)  *)
(* is the text itself, k words "w" separated by single spaces.             *)
(***************************************************************************)
TextOf(k) == [i \in 1..(IF k = 0 THEN 0 ELSE 2 * k - 1) |-> IF i % 2 = 1 THEN "w" ELSE " "]

\* len(text.split()): the number of maximal runs of non-space characters
WordCount(s) ==
    Cardinality({i \in DOMAIN s : ~IsSpace(s[i]) /\ (i = 1 \/ IsSpace(s[i - 1]))})

\* text[:n]
Prefix(s, n) == SubSeq(s, 1, IF Len(s) < n THEN Len(s) ELSE n)

(***************************************************************************)
(* JSON values returned by json.loads, and the Facts dictionary.           *)
(***************************************************************************)
FactKeys ==
    {"goals_mentioned", "values_mentioned", "emotional_tone", "obstacles_mentioned",
     "key_phrases", "context_details", "message_length", "engagement_level"}

JsonObject(f) == [json |-> "object", obj |-> f]
JsonArray == [json |-> "array", obj |-> <<>>]
NotJson == [json |-> "invalid", obj |-> <<>>]
NoFacts == [json |-> "none", obj |-> <<>>]

IsObject(v) == v.json = "object"

\* dict.get(key, default)
Get(v, key, default) == IF key \in DOMAIN v.obj THEN v.obj[key] ELSE default

\* the Facts shape: a dictionary with every key present
IsFacts(v) == IsObject(v) /\ FactKeys \subseteq DOMAIN v.obj

Facts(goals, values, tone, obstacles, phrases) ==
    JsonObject([k \in FactKeys |->
        CASE k = "goals_mentioned" -> goals
          [] k = "values_mentioned" -> values
          [] k = "emotional_tone" -> tone
          [] k = "obstacles_mentioned" -> obstacles
          [] k = "key_phrases" -> phrases
          [] k = "context_details" -> <<>>
          [] k = "message_length" -> "short"
          [] k = "engagement_level" -> "medium"])

\* an object of the service that lacks some keys
Partial(v, keys) == JsonObject([k \in keys |-> v.obj[k]])

(***************************************************************************)
(* extract_knowledge (meta_agent_v4/knowledge.py:14-84, v3 the same).      *)
(* A response of the service is [raises, fenced, payload]: the call raises,*)
(* or returns a text that is the payload, possibly inside a ``` fence.     *)
(***************************************************************************)
Response(raises, fenced, payload) == [raises |-> raises, fenced |-> fenced, payload |-> payload]

MessageLength(user_message) ==
    LET word_count == WordCount(TextOf(user_message))
    IN  IF word_count < 20 THEN "short" ELSE IF word_count < 50 THEN "medium" ELSE "long"

FallbackFacts(user_message) ==
    JsonObject([k \in FactKeys |->
        CASE k = "goals_mentioned" -> <<>>
          [] k = "values_mentioned" -> <<>>
          [] k = "emotional_tone" -> "neutral"
          [] k = "obstacles_mentioned" -> <<>>
          [] k = "key_phrases" -> <<Prefix(TextOf(user_message), 100)>>
          [] k = "context_details" -> <<>>
          [] k = "message_length" -> MessageLength(user_message)
          [] k = "engagement_level" -> "medium"])

\* re.search(r'```(?:json)?\s*(\{.*?\})\s*```') matches a fenced {...} only
FenceMatches(response) == response.fenced /\ response.payload.json \in {"object", "invalid_object"}

\* json.loads raises JSONDecodeError
LoadsFails(response) ==
    IF FenceMatches(response)
    THEN response.payload.json = "invalid_object"
    ELSE response.fenced \/ response.payload.json \in {"invalid", "invalid_object"}

\* mutant: when the call raises, the fallback is built without the user text
extract_knowledge_blind(user_message, response) ==
    IF response.raises THEN FallbackFacts(0)
    ELSE IF LoadsFails(response) THEN FallbackFacts(user_message)
    ELSE response.payload

extract_knowledge(user_message, response) ==
    IF response.raises \/ LoadsFails(response)
    THEN FallbackFacts(user_message)
    ELSE response.payload

(***************************************************************************)
(* The Profile (meta_agent_v4/state.py:13-66).  goals is the dict          *)
(* id -> Goal held as the sequence of its items in insertion order; values *)
(* is the dict name -> Value held as a function.                           *)
(***************************************************************************)
GoalId(n) == <<"g", n>>

Goal(id, statement) ==
    [id |-> id, statement |-> statement, original_phrasing |-> statement,
     confirmed |-> FALSE, obstacles |-> <<>>]

Value(name, weight) ==
    [name |-> name, weight |-> weight, rationale |-> <<>>, confirmed |-> FALSE]

EmptyProfile ==
    [goals |-> <<>>,
     values |-> <<>>,
     intent_context |-> [goal_statement |-> <<>>, desired_outcome |-> "", emotional_tone |-> ""],
     suggested_actions |-> <<>>]

\* d[key] = item on a dict held in insertion order
DictSet(d, key, item) ==
    IF \E i \in DOMAIN d : d[i].id = key
    THEN [i \in DOMAIN d |-> IF d[i].id = key THEN item ELSE d[i]]
    ELSE Append(d, item)

\* d[key] = item on a dict held as a function
MapSet(d, key, item) == [k \in DOMAIN d \cup {key} |-> IF k = key THEN item ELSE d[k]]

(***************************************************************************)
(* update_knowledge_map (meta_agent_v4/knowledge.py:89-157).               *)
(***************************************************************************)
\* mutant: the similarity test without .lower()
OverlapsCaseSensitive(goal_text, existing_goal) ==
    \/ IsSubstring(goal_text, existing_goal.statement)
    \/ IsSubstring(existing_goal.statement, goal_text)

\* the similarity test of lines 107-110 against one existing goal
Overlaps(goal_text, existing_goal) ==
    \/ IsSubstring(Lower(goal_text), Lower(existing_goal.statement))
    \/ IsSubstring(Lower(existing_goal.statement), Lower(goal_text))

\* mutant: the id of the last goal is issued again
NextGoalIdReissued(goals) == GoalId(Len(goals))

\* lines 103-104: the id a new goal gets
NextGoalId(goals) == GoalId(Len(goals) + 1)

\* one iteration of the loop of lines 102-118
AddGoal(goals, goal_text) ==
    IF goal_text # <<>> /\ Len(goal_text) > GoalMinLen
    THEN LET goal_id == NextGoalId(goals)
             existing == \E i \in DOMAIN goals : Overlaps(goal_text, goals[i])
         IN  IF ~existing THEN DictSet(goals, goal_id, Goal(goal_id, goal_text)) ELSE goals
    ELSE goals

RECURSIVE UpdateGoals(_, _)
UpdateGoals(goals, goals_mentioned) ==
    IF goals_mentioned = <<>> THEN goals
    ELSE UpdateGoals(AddGoal(goals, Head(goals_mentioned)), Tail(goals_mentioned))

\* mutant: the reinforcement without its cap
ReinforceUncapped(weight) == FloatAdd(weight, F0_1)

\* line 129: min(1.0, current_value.weight + 0.1)
Reinforce(weight) == FloatMin(F1_0, FloatAdd(weight, F0_1))

\* lines 133-136, v4: `if phrase and phrase not in rationale`
RECURSIVE AddRationale(_, _)
AddRationale(rationale, key_phrases) ==
    IF key_phrases = <<>> THEN rationale
    ELSE LET phrase == Head(key_phrases)
         IN  AddRationale(IF phrase # <<>> /\ ~InList(phrase, rationale)
                          THEN Append(rationale, phrase) ELSE rationale,
                          Tail(key_phrases))

\* meta_agent_v3/knowledge.py:128-131: `if phrase not in rationale`
RECURSIVE AddRationaleV3(_, _)
AddRationaleV3(rationale, key_phrases) ==
    IF key_phrases = <<>> THEN rationale
    ELSE LET phrase == Head(key_phrases)
         IN  AddRationaleV3(IF ~InList(phrase, rationale)
                            THEN Append(rationale, phrase) ELSE rationale,
                            Tail(key_phrases))

\* mutant: the Value is keyed by the text as it was mentioned
AddValueRaw(values, value_text, key_phrases, v3) ==
    IF value_text # <<>> /\ Len(value_text) > ValueMinLen
    THEN LET merged == IF value_text \notin DOMAIN values
                       THEN MapSet(values, value_text, Value(value_text, F0_5))
                       ELSE [values EXCEPT ![value_text].weight = Reinforce(@)]
         IN  IF key_phrases # <<>>
             THEN [merged EXCEPT ![value_text].rationale =
                      IF v3 THEN AddRationaleV3(@, key_phrases) ELSE AddRationale(@, key_phrases)]
             ELSE merged
    ELSE values

\* one iteration of the loop of lines 121-136
AddValue(values, value_text, key_phrases, v3) ==
    IF value_text # <<>> /\ Len(value_text) > ValueMinLen
    THEN LET value_name == Strip(Lower(value_text))
             merged == IF value_name \notin DOMAIN values
                       THEN MapSet(values, value_name, Value(value_name, F0_5))
                       ELSE [values EXCEPT ![value_name].weight = Reinforce(@)]
         IN  IF key_phrases # <<>>
             THEN [merged EXCEPT ![value_name].rationale =
                      IF v3 THEN AddRationaleV3(@, key_phrases) ELSE AddRationale(@, key_phrases)]
             ELSE merged
    ELSE values

RECURSIVE UpdateValues(_, _, _, _)
UpdateValues(values, values_mentioned, key_phrases, v3) ==
    IF values_mentioned = <<>> THEN values
    ELSE UpdateValues(AddValue(values, Head(values_mentioned), key_phrases, v3),
                      Tail(values_mentioned), key_phrases, v3)

\* lines 143-149: obstacles go to the most recently inserted goal
RECURSIVE AddObstacles(_, _)
AddObstacles(obstacles, mentioned) ==
    IF mentioned = <<>> THEN obstacles
    ELSE AddObstacles(IF ~InList(Head(mentioned), obstacles)
                      THEN Append(obstacles, Head(mentioned)) ELSE obstacles,
                      Tail(mentioned))

UpdateObstacles(goals, mentioned) ==
    IF mentioned # <<>> /\ goals # <<>>
    THEN [goals EXCEPT ![Len(goals)].obstacles = AddObstacles(@, mentioned)]
    ELSE goals

\* mutant: the goal statement follows the most recent goal
UpdateIntentLatest(intent_context, goals, extracted) ==
    LET tone == Get(extracted, "emotional_tone", "")
        toned == IF tone # "" THEN [intent_context EXCEPT !.emotional_tone = tone]
                 ELSE intent_context
    IN  IF goals # <<>>
        THEN [toned EXCEPT !.goal_statement = goals[Len(goals)].statement]
        ELSE toned

\* lines 138-157
UpdateIntent(intent_context, goals, extracted) ==
    LET tone == Get(extracted, "emotional_tone", "")
        toned == IF tone # "" THEN [intent_context EXCEPT !.emotional_tone = tone]
                 ELSE intent_context
    IN  IF toned.goal_statement = <<>> /\ goals # <<>>
        THEN [toned EXCEPT !.goal_statement = goals[1].statement]
        ELSE toned

\* update_knowledge_map of v4; extracted must be a dict (extracted.get)
update_knowledge_map(user_profile, extracted) ==
    LET goals == UpdateObstacles(
                     UpdateGoals(user_profile.goals, Get(extracted, "goals_mentioned", <<>>)),
                     Get(extracted, "obstacles_mentioned", <<>>))
        values == UpdateValues(user_profile.values, Get(extracted, "values_mentioned", <<>>),
                               Get(extracted, "key_phrases", <<>>), FALSE)
    IN  [user_profile EXCEPT
            !.goals = goals,
            !.values = values,
            !.intent_context = UpdateIntent(@, goals, extracted)]

\* meta_agent_v3/knowledge.py:104-113: a goal is added when its id is not a key
AddGoalV3(goals, goal_text) ==
    IF goal_text # <<>> /\ Len(goal_text) > GoalMinLen
    THEN LET goal_id == NextGoalId(goals)
         IN  IF ~(\E i \in DOMAIN goals : goals[i].id = goal_id)
             THEN DictSet(goals, goal_id, Goal(goal_id, goal_text)) ELSE goals
    ELSE goals

RECURSIVE UpdateGoalsV3(_, _)
UpdateGoalsV3(goals, goals_mentioned) ==
    IF goals_mentioned = <<>> THEN goals
    ELSE UpdateGoalsV3(AddGoalV3(goals, Head(goals_mentioned)), Tail(goals_mentioned))

\* update_knowledge_map of v3 (meta_agent_v3/knowledge.py:90-152)
update_knowledge_map_v3(user_profile, extracted) ==
    LET goals == UpdateObstacles(
                     UpdateGoalsV3(user_profile.goals, Get(extracted, "goals_mentioned", <<>>)),
                     Get(extracted, "obstacles_mentioned", <<>>))
        values == UpdateValues(user_profile.values, Get(extracted, "values_mentioned", <<>>),
                               Get(extracted, "key_phrases", <<>>), TRUE)
    IN  [user_profile EXCEPT
            !.goals = goals,
            !.values = values,
            !.intent_context = UpdateIntent(@, goals, extracted)]

(***************************************************************************)
(* calculate_value_weights (meta_agent_v4/knowledge.py:219-241, and        *)
(* meta_agent_v3/knowledge.py:254-276, the same text).                     *)
(***************************************************************************)
\* min(1.0, 0.3 + (mention_count * 0.15))
BaseWeight(mention_count) == FloatMin(F1_0, FloatAdd(F0_3, FloatMulNat(mention_count, F0_15)))

\* mutant: the recompute starts from the weight the Value holds
RecomputedWeightDrifting(value) ==
    FloatMin(F1_0, FloatAdd(value.weight, FloatMulNat(Len(value.rationale), F0_15)))

\* the weight one Value gets
RecomputedWeight(value) ==
    LET base_weight == BaseWeight(Len(value.rationale))
    IN  IF value.confirmed THEN FloatMin(F1_0, FloatAdd(base_weight, F0_2)) ELSE base_weight

calculate_value_weights(user_profile) ==
    LET values == user_profile.values
    IN  [user_profile EXCEPT
            !.values = [n \in DOMAIN values |->
                           [values[n] EXCEPT !.weight = RecomputedWeight(values[n])]]]

(***************************************************************************)
(* Stage metrics (meta_agent_v4/utils.py:37-173).  A StageMetrics record   *)
(* is [stage_name, turn_count, closed]; closed stands for a set end_time.  *)
(***************************************************************************)
StageName(s) ==
    CASE s = 0 -> "introduction"
      [] s = 1 -> "rapport_building"
      [] s = 2 -> "value_discovery"
      [] s = 3 -> "action_planning"
      [] s = 4 -> "summary_feedback"
      [] OTHER -> ""

\* mutant: a record is found by its stage name, closed or not
OpenMetricsAnyRecord(metrics, stage_name) ==
    {i \in DOMAIN metrics : metrics[i].stage_name = stage_name}

\* the indexes of the open records of a stage name
OpenMetrics(metrics, stage_name) ==
    {i \in DOMAIN metrics : metrics[i].stage_name = stage_name /\ ~metrics[i].closed}

FirstOf(idx) == CHOOSE i \in idx : \A j \in idx : i <= j

count_user_messages_in_stage(metrics, s) ==
    LET stage_name == StageName(s)
        open == OpenMetrics(metrics, stage_name)
    IN  IF stage_name = "" \/ open = {} THEN 0 ELSE metrics[FirstOf(open)].turn_count

\* StageMetrics(stage_name=stage_name) (state.py:68-77)
StageMetrics(stage_name) ==
    [stage_name |-> stage_name, turn_count |-> 0, total_tokens |-> 0, closed |-> FALSE]

\* estimate_tokens (utils.py:116-125): len(text) // 4
estimate_tokens(text) == Len(text) \div 4

\* the estimate a stage node hands to update_stage_metrics.  The texts the
\* generation service returns have no length in the model, so the sum of
\* nodes.py:140-144 is taken over the user's text alone.
TurnTokens(user_message) == estimate_tokens(TextOf(user_message))

update_stage_metrics(metrics, stage_name, tokens) ==
    LET open == OpenMetrics(metrics, stage_name)
        found == IF open = {} THEN Append(metrics, StageMetrics(stage_name)) ELSE metrics
        at == IF open = {} THEN Len(found) ELSE FirstOf(open)
    IN  [found EXCEPT ![at].turn_count = @ + 1, ![at].total_tokens = @ + tokens]

\* mutant: closing a stage's record also counts a turn on it
finalize_stage_metrics_counting(metrics, stage_name) ==
    LET open == OpenMetrics(metrics, stage_name)
    IN  IF open = {} THEN metrics
        ELSE [metrics EXCEPT ![FirstOf(open)].closed = TRUE,
                             ![FirstOf(open)].turn_count = @ + 1]

finalize_stage_metrics(metrics, stage_name) ==
    LET open == OpenMetrics(metrics, stage_name)
    IN  IF open = {} THEN metrics ELSE [metrics EXCEPT ![FirstOf(open)].closed = TRUE]

(***************************************************************************)
(* The message log.  A message is [role, kind, content]: a HumanMessage    *)
(* carries the index of its text, an AIMessage the kind of text the node   *)
(* produced.                                                               *)
(***************************************************************************)
HumanMessage(content) == [role |-> "human", kind |-> "user", content |-> content]
AIMessage(kind) == [role |-> "ai", kind |-> kind, content |-> 0]

HumanCount(msgs) == Cardinality({i \in DOMAIN msgs : msgs[i].role = "human"})

\* get_last_user_message (utils.py:22-34); 0 stands for None
get_last_user_message(msgs) ==
    LET idx == {i \in DOMAIN msgs : msgs[i].role = "human"}
    IN  IF idx = {} THEN 0 ELSE msgs[CHOOSE i \in idx : \A j \in idx : j <= i].content

(***************************************************************************)
(* Routers.  route_from_preprocessor is meta_agent_v4/router.py:23-43.     *)
(* route_from_reply and route_after_validate_summary are imported by       *)
(* graph.py:20-24 but are not in the sources: they follow the edge maps of *)
(* graph.py:117-153 ("REPLY routes to appropriate validator based on       *)
(* current stage").                                                        *)
(***************************************************************************)
\* mutant: a session in VALUE_DISCOVERY goes from the preprocessor straight to
\* the next completion check
route_from_preprocessor_chained(s) ==
    CASE s = 0 -> "introduction"
      [] s = 1 -> "rapport_building"
      [] s = 2 -> "validate_value_discovery"
      [] s = 3 -> "action_planning"
      [] s = 4 -> "summary_feedback"
      [] OTHER -> "END"

\* mutant: a finished session is routed to the introduction again
route_from_preprocessor_restart(s) ==
    CASE s = 0 -> "introduction"
      [] s = 1 -> "rapport_building"
      [] s = 2 -> "value_discovery"
      [] s = 3 -> "action_planning"
      [] s = 4 -> "summary_feedback"
      [] OTHER -> "introduction"

\* mutant: a session in RAPPORT is routed to the introduction again
route_from_preprocessor_reintroduced(s) ==
    CASE s = 0 -> "introduction"
      [] s = 1 -> "introduction"
      [] s = 2 -> "value_discovery"
      [] s = 3 -> "action_planning"
      [] s = 4 -> "summary_feedback"
      [] OTHER -> "END"

route_from_preprocessor(s) ==
    CASE s = 0 -> "introduction"
      [] s = 1 -> "rapport_building"
      [] s = 2 -> "value_discovery"
      [] s = 3 -> "action_planning"
      [] s = 4 -> "summary_feedback"
      [] OTHER -> "END"

route_from_reply(s) ==
    CASE s = 1 -> "validate_rapport"
      [] s = 2 -> "validate_value_discovery"
      [] s = 3 -> "validate_action_planning"
      [] s = 4 -> "validate_summary"
      [] OTHER -> "END"

route_after_validate_summary(s) == IF s >= 5 THEN "finalize" ELSE "summary_feedback"

(***************************************************************************)
(* The decisions of the v4 validators (meta_agent_v4/nodes.py:412-692).    *)
(* A judgment is what the call and its parse give:                         *)
(*   "ready"       a dict whose should_advance / should_end is true        *)
(*   "not_ready"   a dict whose should_advance / should_end is false       *)
(*   "no_key"      a dict without the key (assessment.get gives None)      *)
(*   "not_dict"    JSON that is no dict (assessment.get raises)            *)
(*   "unparseable" json.loads raises JSONDecodeError                       *)
(*   "raises"      llm.invoke raises                                       *)
(***************************************************************************)
Judgments == {"ready", "not_ready", "no_key", "not_dict", "unparseable", "raises"}

\* the judgments that end in the except branch
Failed(judgment) == judgment \in {"not_dict", "unparseable", "raises"}

\* nodes.py:485
RapportFallback(turn_count, goals_count) ==
    turn_count >= RapportCeiling \/ (goals_count >= MinGoals /\ turn_count >= RapportMinTurns)

\* mutant: the fallback rule of VALUE_DISCOVERY without its ceiling
ValueDiscoveryFallbackNoCeiling(turn_count, value_count) ==
    value_count >= MinValues /\ turn_count >= ValueDiscoveryMinTurns

\* nodes.py:554
ValueDiscoveryFallback(turn_count, value_count) ==
    turn_count >= ValueDiscoveryCeiling
        \/ (value_count >= MinValues /\ turn_count >= ValueDiscoveryMinTurns)

\* nodes.py:623
ActionPlanningFallback(turn_count, action_count) ==
    turn_count >= ActionPlanningCeiling
        \/ (action_count >= MinActions /\ turn_count >= ActionPlanningMinTurns)

\* nodes.py:688
SummaryFallback(turn_count, has_feedback) == has_feedback \/ turn_count >= SummaryMaxTurns

\* the try / except of a validator: advance on a parsed ready, stay on a parsed
\* not ready, the fallback rule when the call or the parse fails
Decide(judgment, fallback) ==
    IF Failed(judgment) THEN fallback ELSE judgment = "ready"

(***************************************************************************)
(* Inputs of the controller.                                               *)
(***************************************************************************)
Career == <<"c", "a", "r", "e", "e", "r">>
Growth == <<"g", "r", "o", "w", "t", "h">>
Freedom == <<"F", "r", "e", "e", "d", "o", "m">>
Family == <<"f", "a", "m", "i", "l", "y">>
Phrase1 == <<"p", "1">>

FullFacts == Facts(<<Career>>, <<Growth, Freedom, Family>>, "hopeful", <<"time">>, <<Phrase1>>)

\* what the text-understanding service answers in a session
CtlResponses ==
    { Response(TRUE, FALSE, NotJson),
      Response(FALSE, FALSE, FullFacts),
      Response(FALSE, TRUE, Partial(FullFacts, {"emotional_tone"})),
      Response(FALSE, FALSE, JsonArray) }

\* a list item of a generated plan: its text, len(text) and the value names in it
ActionItem(description, length, mentions) ==
    [description |-> description, length |-> length, mentions |-> mentions]

\* the list items re.findall gives for a generated plan
ActionResponses ==
    { <<>>,
      <<ActionItem("a1", 40, {Growth}), ActionItem("too short", 9, {}),
        ActionItem("a2", 40, {}), ActionItem("a3", 40, {})>> }

\* nodes.py:279-297, one list item
AddAction(user_profile, item) ==
    IF item.length < ActionMinLen \/ item.length > ActionMaxLen THEN user_profile
    ELSE IF \E i \in DOMAIN user_profile.suggested_actions :
                user_profile.suggested_actions[i].description = item.description
    THEN user_profile
    ELSE [user_profile EXCEPT !.suggested_actions =
            Append(@, [description |-> item.description,
                       linked_values |-> {Strip(Lower(v)) : v \in item.mentions}
                                            \cap DOMAIN user_profile.values,
                       fit_score |-> "0.8"])]

RECURSIVE AddActions(_, _)
AddActions(user_profile, items) ==
    IF items = <<>> THEN user_profile
    ELSE AddActions(AddAction(user_profile, Head(items)), Tail(items))

(***************************************************************************)
(* State.                                                                  *)
(***************************************************************************)
VARIABLES
    variant,        \* "v4" or "v3": the package the session runs
    stage,          \* MetaAgentState.stage
    messages,       \* MetaAgentState.messages
    user_profile,   \* MetaAgentState.user_profile
    final_summary,  \* MetaAgentState.final_summary ("" when unset)
    final_feedback, \* MetaAgentState.final_feedback (0, the empty text, when unset)
    stage_metrics,  \* MetaAgentState.stage_metrics
    total_turns,    \* MetaAgentState.total_turns
    pc,             \* the node about to run, or "idle" / "reply" / "END" / "aborted"
    extracted,      \* what extract_knowledge returned to the preprocessor last
    lastCheck,      \* the completion check that has just run
    only_not_ready, \* every check of the current stage answered a parsed not ready
    stage_changes,  \* writes that changed stage since the last inbound event
    feedback_turn,  \* "now" while the first user message after the summary is handled
    gen_failed,     \* a generation call of the current run (v3: of the session) has raised
    store_ops,      \* operations applied in the store specification
    last_merges,    \* merges of the facts of the latest user message into the profile
    intent_confirmed, \* MetaAgentState.intent_confirmed of meta_agent_v3
    values_confirmed, \* MetaAgentState.values_confirmed of meta_agent_v3
    plan_generated,   \* MetaAgentState.plan_generated of meta_agent_v3
    steps,            \* node executions of the running invocation of the v3 graph
    invocations,      \* invocations of the v3 graph so far
    advances,         \* stage advances the completion checks of the running invocation made
    assessed,         \* runs of assess_rapport_completion so far
    node_runs,        \* node executions of the v3 graph in the session
    telemetry,        \* how the telemetry call of the finalization of this run went
    value_depth,      \* MetaAgentState.value_depth of meta_agent and meta_agent_v2
    stage_complete,   \* the stages k whose flag stage_k_complete is set (v1, v2)
    parked,           \* the suspended session of a process that serves two sessions
    defaults,         \* the objects the constructor of the running session created
    allocated         \* the number of objects constructors have created so far

vars ==
    <<variant, stage, messages, user_profile, final_summary, final_feedback, stage_metrics,
      total_turns, pc, extracted, lastCheck, only_not_ready, stage_changes, feedback_turn,
      gen_failed, store_ops, last_merges, intent_confirmed, values_confirmed,
      plan_generated, steps, invocations, advances, assessed, node_runs, telemetry,
      value_depth, stage_complete,
      parked, defaults, allocated>>

\* the fields of MetaAgentState and UserProfile that hold a mutable object,
\* in the order the constructor fills them (state.py:63-66, 85-98)
DefaultFields ==
    <<"messages", "user_profile", "goals", "values", "intent_context", "suggested_actions",
      "stage_metrics">>

\* mutant: a default that is one object, made once with the class
default_shared(created, k) == k

\* field(default_factory=...): the k-th field gets an object made by this call
\* of the constructor, `created` objects existing before the call
default_factory(created, k) == created + k

\* the objects MetaAgentState() creates for its fields
NewDefaults(created) ==
    [f \in {DefaultFields[k] : k \in DOMAIN DefaultFields} |->
        default_factory(created, CHOOSE k \in DOMAIN DefaultFields : DefaultFields[k] = f)]

NoSession == [session |-> "none"]

\* the fields only meta_agent_v3 has, and the counters of its graph runs
FlagsInit ==
    /\ intent_confirmed = FALSE
    /\ values_confirmed = FALSE
    /\ plan_generated = FALSE
    /\ steps = 0
    /\ invocations = 0
    /\ advances = 0
    /\ assessed = 0
    /\ node_runs = 0
    /\ telemetry = "none"
    /\ value_depth = 0
    /\ stage_complete = {}
    /\ parked = NoSession
    /\ defaults = NewDefaults(0)
    /\ allocated = Len(DefaultFields)

\* the fields and counters of v3, v2 and v1, which no node of v4 has
GraphFlagsUnchanged ==
    UNCHANGED <<intent_confirmed, values_confirmed, plan_generated, steps, invocations,
                advances, assessed, node_runs, value_depth, stage_complete,
                parked, defaults, allocated>>

FlagsUnchanged ==
    /\ GraphFlagsUnchanged
    /\ UNCHANGED telemetry

\* log_final_feedback returns, or the telemetry service fails inside it
TelemetryOutcomes == {"logged", "failed"}

\* mutant: a failed telemetry call leaves _finalize_session as an exception
finalize_session_raising(outcome) == IF outcome = "failed" THEN "aborted" ELSE "END"

\* _finalize_session (meta_agent_v3/graph.py:140-156): log_final_feedback
\* catches every Exception of its body (opik_logger.py:23-138), the node
\* catches what is left and calls log_error, which catches its own
\* (opik_logger.py:209-231); the node returns {} and the edge leads to END
finalize_session(outcome) == "END"

NoCheck == [stage |-> 0, turn_count |-> 0, count |-> 0, judgment |-> "none", advanced |-> FALSE]

Check(s, turn_count, count, judgment, advanced) ==
    [stage |-> s, turn_count |-> turn_count, count |-> count, judgment |-> judgment,
     advanced |-> advanced]

\* MetaAgentState() (state.py:80-103) before the first invocation
Init ==
    /\ variant = "v4"
    /\ stage = 0
    /\ messages = <<>>
    /\ user_profile = EmptyProfile
    /\ final_summary = ""
    /\ final_feedback = 0
    /\ stage_metrics = <<>>
    /\ total_turns = 0
    /\ pc = "idle"
    /\ extracted = NoFacts
    /\ lastCheck = NoCheck
    /\ only_not_ready = TRUE
    /\ stage_changes = 0
    /\ feedback_turn = "none"
    /\ gen_failed = FALSE
    /\ store_ops = 0
    /\ last_merges = 0
    /\ FlagsInit

\* the ceiling of a stage that has a completion check with a count
Ceiling(s) ==
    CASE s = 1 -> RapportCeiling
      [] s = 2 -> ValueDiscoveryCeiling
      [] s = 3 -> ActionPlanningCeiling
      [] OTHER -> SummaryMaxTurns

\* the user replies while the stage has not run MaxOver turns past its ceiling
CanSend == count_user_messages_in_stage(stage_metrics, stage) < Ceiling(stage) + MaxOver

\* the first user message after the summary was emitted
FeedbackTurn ==
    IF final_summary # "" /\ feedback_turn = "none" THEN "now"
    ELSE IF feedback_turn = "now" THEN "past" ELSE feedback_turn

\* the texts the user may send next: a new text of HumanCount + 1 words, and,
\* in answer to a summary and at most MaxEmptyTexts times, also the empty
\* text (content 0, which the nodes treat like no message: `if not user_message`)
UserTexts ==
    {HumanCount(messages) + 1}
        \cup (IF /\ messages # <<>>
                 /\ messages[Len(messages)].kind = "summary"
                 /\ Cardinality({i \in DOMAIN messages : messages[i] = HumanMessage(0)})
                        < MaxEmptyTexts
              THEN {0} ELSE {})

Changed(old, new) == IF new # old THEN stage_changes + 1 ELSE stage_changes

(***************************************************************************)
(* The v4 graph (meta_agent_v4/graph.py:46-159).  Each action is one node  *)
(* together with the edge that leaves it.                                  *)
(***************************************************************************)
\* the last message of the log is a user message no node has answered
Unanswered == messages # <<>> /\ messages[Len(messages)].role = "human"

\* the user messages at the end of the log that no assistant message follows
RECURSIVE Trailing(_)
Trailing(msgs) ==
    IF msgs = <<>> \/ msgs[Len(msgs)].role # "human" THEN 0
    ELSE 1 + Trailing(SubSeq(msgs, 1, Len(msgs) - 1))

\* graph.invoke(input): a new run enters at the preprocessor (graph.py:76); the
\* input holds one user message or none ("session start").  Nothing in the
\* graph refuses an input: the client sends a new message when the last one
\* was answered or when the run of the last one reached END without an answer
\* (once), and an input without a message to start the session or to run
\* again for a message that has no answer.
Invoke(with_message) ==
    /\ variant = "v4"
    /\ pc \in {"idle", "reply", "END", "aborted"}
    /\ with_message => CanSend
    /\ with_message => (~Unanswered) \/ (pc = "END" /\ Trailing(messages) = 1)
    /\ ~with_message => \/ (HumanCount(messages) = 0 /\ pc # "reply")
                         \/ (Unanswered /\ last_merges < MaxMerges)
    /\ \E content \in UserTexts :
          messages' = IF with_message THEN Append(messages, HumanMessage(content))
                      ELSE messages
    /\ pc' = "preprocessor"
    /\ lastCheck' = NoCheck
    /\ stage_changes' = 0
    /\ feedback_turn' = IF with_message THEN FeedbackTurn ELSE feedback_turn
    /\ gen_failed' = FALSE
    /\ extracted' = NoFacts
    /\ last_merges' = IF with_message THEN 0 ELSE last_merges
    /\ telemetry' = "none"
    /\ UNCHANGED <<variant, stage, user_profile, final_summary, final_feedback, stage_metrics,
                   total_turns, only_not_ready, store_ops>>
    /\ GraphFlagsUnchanged

\* preprocessor_node (nodes.py:34-58) and route_from_preprocessor.  A value of
\* extract_knowledge that is no dict makes update_knowledge_map raise
\* (extracted.get), which ends the run.
Preprocessor ==
    /\ pc = "preprocessor"
    /\ LET user_message == get_last_user_message(messages)
       IN  IF user_message = 0 \/ stage = 0
           THEN /\ pc' = route_from_preprocessor(stage)
                /\ UNCHANGED <<user_profile, extracted, last_merges>>
           ELSE \E response \in CtlResponses :
                   /\ extracted' = extract_knowledge(user_message, response)
                   /\ IF IsObject(extracted')
                      THEN /\ user_profile' = update_knowledge_map(user_profile, extracted')
                           /\ last_merges' = last_merges + 1
                           /\ pc' = route_from_preprocessor(stage)
                      ELSE /\ pc' = "aborted"
                           /\ UNCHANGED <<user_profile, last_merges>>
    /\ lastCheck' = NoCheck
    /\ UNCHANGED <<variant, stage, messages, final_summary, final_feedback, stage_metrics,
                   total_turns, only_not_ready, stage_changes, feedback_turn, gen_failed,
                   store_ops>>
    /\ FlagsUnchanged

\* introduction_node (nodes.py:64-85), then the edge to END (graph.py:94-97)
IntroductionStage == 1

Introduction ==
    /\ pc = "introduction"
    /\ messages' = Append(messages, AIMessage("introduction"))
    /\ stage' = IntroductionStage
    /\ stage_metrics' = finalize_stage_metrics(
                            update_stage_metrics(stage_metrics, "introduction", TurnTokens(0)), "introduction")
    /\ total_turns' = total_turns + 1
    /\ stage_changes' = Changed(stage, stage')
    /\ only_not_ready' = TRUE
    /\ pc' = "END"
    /\ extracted' = NoFacts
    /\ UNCHANGED <<variant, user_profile, final_summary, final_feedback, lastCheck,
                   feedback_turn, gen_failed, store_ops, last_merges>>
    /\ FlagsUnchanged

\* rapport_building_node (nodes.py:91-147).  With a user message the node reads
\* state.last_extracted_knowledge (line 115), which is no field of
\* MetaAgentState (state.py:80-103): the preprocessor's write of that key is
\* not a channel of the graph, the read raises AttributeError and the run ends.
RapportBuilding ==
    /\ pc = "rapport_building"
    /\ IF get_last_user_message(messages) = 0
       THEN /\ messages' = Append(messages, AIMessage("fallback"))
            /\ pc' = "reply"
       ELSE /\ pc' = "aborted"
            /\ UNCHANGED messages
    /\ extracted' = NoFacts
    /\ UNCHANGED <<variant, stage, user_profile, final_summary, final_feedback, stage_metrics,
                   total_turns, lastCheck, only_not_ready, stage_changes, feedback_turn,
                   gen_failed, store_ops, last_merges>>
    /\ FlagsUnchanged

\* value_discovery_node (nodes.py:153-214).  llm.invoke (line 197) is in no
\* try: when it raises the run ends; the weights were recomputed in place
\* before the call (line 177) and the recomputed profile is or is not the one
\* the session keeps.
ValueDiscovery ==
    /\ pc = "value_discovery"
    /\ IF get_last_user_message(messages) = 0
       THEN /\ messages' = Append(messages, AIMessage("fallback"))
            /\ pc' = "reply"
            /\ UNCHANGED <<user_profile, stage_metrics, total_turns, gen_failed>>
       ELSE \E generated \in BOOLEAN :
               IF generated
               THEN /\ user_profile' = calculate_value_weights(user_profile)
                    /\ messages' = Append(messages, AIMessage("question"))
                    /\ stage_metrics' = update_stage_metrics(stage_metrics, "value_discovery",
                                              TurnTokens(get_last_user_message(messages)))
                    /\ total_turns' = total_turns + 1
                    /\ pc' = "reply"
                    /\ UNCHANGED gen_failed
               ELSE /\ user_profile' \in {user_profile, calculate_value_weights(user_profile)}
                    /\ gen_failed' = TRUE
                    /\ pc' = "aborted"
                    /\ UNCHANGED <<messages, stage_metrics, total_turns>>
    /\ extracted' = NoFacts
    /\ UNCHANGED <<variant, stage, final_summary, final_feedback, lastCheck, only_not_ready,
                   stage_changes, feedback_turn, store_ops, last_merges>>
    /\ FlagsUnchanged

\* action_planning_node (nodes.py:220-311); llm.invoke at line 268
ActionPlanning ==
    /\ pc = "action_planning"
    /\ \E generated \in BOOLEAN :
          IF generated
          THEN \E items \in ActionResponses :
                  /\ user_profile' = AddActions(user_profile, items)
                  /\ messages' = Append(messages, AIMessage("plan"))
                  /\ stage_metrics' = update_stage_metrics(stage_metrics, "action_planning",
                                              TurnTokens(get_last_user_message(messages)))
                  /\ total_turns' = total_turns + 1
                  /\ pc' = "reply"
                  /\ UNCHANGED gen_failed
          ELSE /\ gen_failed' = TRUE
               /\ pc' = "aborted"
               /\ UNCHANGED <<user_profile, messages, stage_metrics, total_turns>>
    /\ extracted' = NoFacts
    /\ UNCHANGED <<variant, stage, final_summary, final_feedback, lastCheck, only_not_ready,
                   stage_changes, feedback_turn, store_ops, last_merges>>
    /\ FlagsUnchanged

\* the text of the n-th summary the generation call returns (nodes.py:371-374)
SummaryText(n) == "summary " \o ToString(n)

\* the summaries emitted so far: summary_feedback_node writes final_summary
\* in the same update that appends the summary message (nodes.py:380-385)
SummariesEmitted(msgs) == Cardinality({i \in DOMAIN msgs : msgs[i].kind = "summary"})

\* summary_feedback_node (nodes.py:317-385), then the edge to reply (graph.py:113)
SummaryStage == 4
EndStage == 5

SummaryFeedback ==
    /\ pc = "summary_feedback"
    /\ LET user_message == get_last_user_message(messages)
       IN  IF final_summary # "" /\ user_message # 0
           THEN /\ messages' = Append(messages, AIMessage("closing"))
                /\ final_feedback' = user_message
                /\ stage' = EndStage
                /\ stage_metrics' = update_stage_metrics(
                       finalize_stage_metrics(stage_metrics, "summary_feedback"),
                       "summary_feedback", TurnTokens(user_message))
                /\ total_turns' = total_turns + 1
                /\ pc' = "reply"
                /\ UNCHANGED <<final_summary, gen_failed>>
           ELSE \E generated \in BOOLEAN :
                   IF generated
                   THEN /\ messages' = Append(messages, AIMessage("summary"))
                        /\ final_summary' = SummaryText(SummariesEmitted(messages) + 1)
                        /\ stage' = IF stage # SummaryStage THEN SummaryStage ELSE stage
                        /\ stage_metrics' = update_stage_metrics(stage_metrics, "summary_feedback",
                                              TurnTokens(0))
                        /\ total_turns' = total_turns + 1
                        /\ pc' = "reply"
                        /\ UNCHANGED <<final_feedback, gen_failed>>
                   ELSE /\ gen_failed' = TRUE
                        /\ pc' = "aborted"
                        /\ UNCHANGED <<messages, final_summary, final_feedback, stage,
                                       stage_metrics, total_turns>>
    /\ stage_changes' = Changed(stage, stage')
    /\ only_not_ready' = IF stage' # stage THEN TRUE ELSE only_not_ready
    /\ extracted' = NoFacts
    /\ UNCHANGED <<variant, user_profile, lastCheck, feedback_turn, store_ops, last_merges>>
    /\ FlagsUnchanged

\* reply_node (nodes.py:388-406): the run is suspended by interrupt(); resumed
\* with the user's answer it appends the answer and routes by route_from_reply
Reply ==
    /\ pc = "reply"
    /\ CanSend
    /\ \E content \in UserTexts : messages' = Append(messages, HumanMessage(content))
    /\ pc' = route_from_reply(stage)
    /\ lastCheck' = NoCheck
    /\ stage_changes' = 0
    /\ feedback_turn' = FeedbackTurn
    /\ gen_failed' = FALSE
    /\ last_merges' = 0
    /\ UNCHANGED <<variant, stage, user_profile, final_summary, final_feedback, stage_metrics,
                   total_turns, extracted, only_not_ready, store_ops>>
    /\ FlagsUnchanged

\* mutant: an advancing completion check writes the stage after the next one
ValidateSkipping(s, next_stage, advance) ==
    /\ stage' = IF advance THEN next_stage + 1 ELSE stage
    /\ stage_metrics' = IF advance THEN finalize_stage_metrics(stage_metrics, StageName(s))
                        ELSE stage_metrics
    /\ stage_changes' = Changed(stage, stage')
    /\ UNCHANGED <<variant, messages, user_profile, final_summary, final_feedback,
                   total_turns, extracted, feedback_turn, gen_failed, store_ops, last_merges>>
    /\ FlagsUnchanged

\* the common shape of validate_rapport_node, validate_value_discovery_node and
\* validate_action_planning_node: the stage written on an advance is a literal
Validate(s, next_stage, advance) ==
    /\ stage' = IF advance THEN next_stage ELSE stage
    /\ stage_metrics' = IF advance THEN finalize_stage_metrics(stage_metrics, StageName(s))
                        ELSE stage_metrics
    /\ stage_changes' = Changed(stage, stage')
    /\ UNCHANGED <<variant, messages, user_profile, final_summary, final_feedback,
                   total_turns, extracted, feedback_turn, gen_failed, store_ops, last_merges>>
    /\ FlagsUnchanged

\* validate_rapport_node (nodes.py:412-489), then the edge to the preprocessor
ValidateRapport ==
    /\ pc = "validate_rapport"
    /\ \E judgment \in Judgments :
          LET turn_count == count_user_messages_in_stage(stage_metrics, 1)
              goals_count == Len(user_profile.goals)
              advance == Decide(judgment, RapportFallback(turn_count, goals_count))
          IN  /\ Validate(1, 2, advance)
              /\ lastCheck' = Check(1, turn_count, goals_count, judgment, advance)
              /\ only_not_ready' = IF advance THEN TRUE
                                   ELSE only_not_ready /\ judgment = "not_ready"
    /\ pc' = "preprocessor"

\* validate_value_discovery_node (nodes.py:492-558)
ValidateValueDiscovery ==
    /\ pc = "validate_value_discovery"
    /\ \E judgment \in Judgments :
          LET turn_count == count_user_messages_in_stage(stage_metrics, 2)
              value_count == Cardinality(DOMAIN user_profile.values)
              advance == Decide(judgment, ValueDiscoveryFallback(turn_count, value_count))
          IN  /\ Validate(2, 3, advance)
              /\ lastCheck' = Check(2, turn_count, value_count, judgment, advance)
              /\ only_not_ready' = IF advance THEN TRUE
                                   ELSE only_not_ready /\ judgment = "not_ready"
    /\ pc' = "preprocessor"

\* validate_action_planning_node (nodes.py:561-627)
ValidateActionPlanning ==
    /\ pc = "validate_action_planning"
    /\ \E judgment \in Judgments :
          LET turn_count == count_user_messages_in_stage(stage_metrics, 3)
              action_count == Len(user_profile.suggested_actions)
              advance == Decide(judgment, ActionPlanningFallback(turn_count, action_count))
          IN  /\ Validate(3, 4, advance)
              /\ lastCheck' = Check(3, turn_count, action_count, judgment, advance)
              /\ only_not_ready' = IF advance THEN TRUE
                                   ELSE only_not_ready /\ judgment = "not_ready"
    /\ pc' = "preprocessor"

\* validate_summary_node (nodes.py:630-692) and route_after_validate_summary
ValidateSummary ==
    /\ pc = "validate_summary"
    /\ \E judgment \in Judgments :
          LET turn_count == count_user_messages_in_stage(stage_metrics, 4)
              has_feedback == final_feedback # 0
              advance == Decide(judgment, SummaryFallback(turn_count, has_feedback))
          IN  /\ Validate(4, EndStage, advance)
              /\ lastCheck' = Check(4, turn_count, IF has_feedback THEN 1 ELSE 0, judgment, advance)
              /\ only_not_ready' = IF advance THEN TRUE
                                   ELSE only_not_ready /\ judgment = "not_ready"
    /\ pc' = route_after_validate_summary(stage')

\* _finalize_session (graph.py:28-43), then the edge to END; the telemetry call
\* is in a try and changes no state
Finalize ==
    /\ pc = "finalize"
    /\ \E outcome \in TelemetryOutcomes :
          /\ telemetry' = outcome
          /\ pc' = finalize_session(outcome)
    /\ lastCheck' = NoCheck
    /\ UNCHANGED <<variant, stage, messages, user_profile, final_summary, final_feedback,
                   stage_metrics, total_turns, extracted, only_not_ready, stage_changes,
                   feedback_turn, gen_failed, store_ops, last_merges>>
    /\ GraphFlagsUnchanged

Next ==
    \/ \E with_message \in BOOLEAN : Invoke(with_message)
    \/ Preprocessor
    \/ Introduction
    \/ RapportBuilding
    \/ ValueDiscovery
    \/ ActionPlanning
    \/ SummaryFeedback
    \/ Reply
    \/ ValidateRapport
    \/ ValidateValueDiscovery
    \/ ValidateActionPlanning
    \/ ValidateSummary
    \/ Finalize

Spec == Init /\ [][Next]_vars

(***************************************************************************)
(* Properties of the v4 controller, checked under Spec.                    *)
(***************************************************************************)
\* the deterministic minimum of a stage (nodes.py:485, 554, 623)
Minimum(s) ==
    CASE s = 1 -> MinGoals
      [] s = 2 -> MinValues
      [] OTHER -> MinActions

\* the turns the fallback rule asks for besides the minimum
MinTurns(s) ==
    CASE s = 1 -> RapportMinTurns
      [] s = 2 -> ValueDiscoveryMinTurns
      [] OTHER -> ActionPlanningMinTurns

\* C1: in RAPPORT, VALUE_DISCOVERY and ACTION_PLANNING, when every judgment of
\* the stage so far was a parsed "not ready", the completion check advances
\* the stage exactly when the stage's turn count has reached the ceiling
\* (8, 10, 7): at the ceiling it advances, below the ceiling it does not.
C1_CeilingForcesAdvance ==
    (lastCheck.stage \in 1..3 /\ lastCheck.judgment = "not_ready" /\ only_not_ready)
        => (lastCheck.advanced <=> lastCheck.turn_count >= Ceiling(lastCheck.stage))

\* C2: a completion check of RAPPORT, VALUE_DISCOVERY or ACTION_PLANNING
\* advances only on a ready judgment with the stage's minimum met (1 goal,
\* 3 values, 3 actions), or at the ceiling, or by the fallback rule of a
\* failed judgment; a ready judgment alone does not advance.
C2_AdvanceNeedsMinimums ==
    (lastCheck.stage \in 1..3 /\ lastCheck.advanced)
        => \/ lastCheck.judgment = "ready" /\ lastCheck.count >= Minimum(lastCheck.stage)
           \/ lastCheck.turn_count >= Ceiling(lastCheck.stage)
           \/ /\ Failed(lastCheck.judgment)
              /\ lastCheck.count >= Minimum(lastCheck.stage)
              /\ lastCheck.turn_count >= MinTurns(lastCheck.stage)

\* C3: between two inbound events (a graph invocation or a resume of
\* reply_node with the user's message) the stage changes at most once,
\* whatever the judgments answer and whatever the profile holds.
C3_OneTransitionPerMessage == stage_changes <= 1

\* the pass that moved the session into ACTION_PLANNING has run to its
\* suspension with a profile that holds a goal and three values
C3_Witness ==
    /\ pc = "reply"
    /\ stage = 3
    /\ stage_changes = 1
    /\ Len(user_profile.goals) >= MinGoals
    /\ Cardinality(DOMAIN user_profile.values) >= MinValues

\* C4: the stage index never decreases in a step of the controller.
C4_StageNeverDecreases == [][stage' >= stage]_vars

\* the session has gone through every writer of stage and is at END
C4_Witness == stage = EndStage /\ final_feedback # 0 /\ pc = "END"

C7_ExtractAlwaysFacts == extracted # NoFacts => IsFacts(extracted)

\* C8: when the generation call of a stage node has failed, the run is not
\* aborted: the node has appended the fallback assistant message and the
\* session is suspended at reply_node in the same stage.
C8_GenerationFailureFallsBack ==
    gen_failed
        => /\ pc # "aborted"
           /\ messages # <<>>
           /\ messages[Len(messages)] = AIMessage("fallback")

(***************************************************************************)
(* The profile store on its own: any sequence of update_knowledge_map      *)
(* merges and calculate_value_weights recomputes, of v4 or of v3, on a     *)
(* fresh profile.  pc holds the operation applied last.                    *)
(***************************************************************************)
NewCareer == <<"n", "e", "w", " ", "c", "a", "r", "e", "e", "r">>
CareerUpper == <<"C", "A", "R", "E", "E", "R">>
Health == <<"H", "e", "a", "l", "t", "h">>
Travel == <<"t", "r", "a", "v", "e", "l">>
Run == <<"r", "u", "n">>
FreedomLower == <<"f", "r", "e", "e", "d", "o", "m">>
FreedomPadded == <<" ", "f", "r", "e", "e", "d", "o", "m", " ">>
Go == <<"g", "o">>
Phrase2 == <<"p", "2">>
Phrase3 == <<"p", "3">>
Phrase4 == <<"p", "4">>
Phrase5 == <<"p", "5">>

\* the dictionaries extract_knowledge hands to update_knowledge_map
StoreBundles ==
    { Facts(<<Career, NewCareer>>, <<Freedom, FreedomLower, FreedomPadded>>, "hopeful",
            <<"time">>, <<Phrase1, Phrase2, Phrase3>>),
      Facts(<<Health, Run, CareerUpper>>, <<Growth, Go, Freedom>>, "", <<>>,
            <<Phrase3, Phrase4, Phrase5, <<>> >>),
      Facts(<<>>, <<Freedom, Freedom, Freedom>>, "neutral", <<"money">>, <<>>),
      Facts(<<Travel, <<>> >>, <<>>, "", <<>>, <<Phrase1>>),
      Partial(FullFacts, {"values_mentioned"}) }

InitStore ==
    /\ variant \in {"v3", "v4"}
    /\ stage = 0
    /\ messages = <<>>
    /\ user_profile = EmptyProfile
    /\ final_summary = ""
    /\ final_feedback = 0
    /\ stage_metrics = <<>>
    /\ total_turns = 0
    /\ pc = "store"
    /\ extracted = NoFacts
    /\ lastCheck = NoCheck
    /\ only_not_ready = TRUE
    /\ stage_changes = 0
    /\ feedback_turn = "none"
    /\ gen_failed = FALSE
    /\ store_ops = 0
    /\ last_merges = 0
    /\ FlagsInit

\* pc in the store: the operation applied last, "recomputed_again" when a
\* recompute followed a recompute directly
StorePositions == {"store", "merged", "recomputed", "recomputed_again"}

StoreUnchanged ==
    UNCHANGED <<variant, stage, messages, final_summary, final_feedback, stage_metrics,
                total_turns, lastCheck, only_not_ready, stage_changes, feedback_turn,
                gen_failed, last_merges, intent_confirmed, values_confirmed,
                plan_generated, steps, invocations, advances, assessed, node_runs, telemetry,
      value_depth, stage_complete,
      parked, defaults, allocated>>

\* update_knowledge_map(state, extracted) of the session's package
StoreMerge ==
    /\ pc \in StorePositions
    /\ store_ops < MaxStoreOps
    /\ \E bundle \in StoreBundles :
          /\ extracted' = bundle
          /\ user_profile' = IF variant = "v4"
                             THEN update_knowledge_map(user_profile, bundle)
                             ELSE update_knowledge_map_v3(user_profile, bundle)
    /\ store_ops' = store_ops + 1
    /\ pc' = "merged"
    /\ StoreUnchanged

\* calculate_value_weights(state) of the session's package
StoreRecompute ==
    /\ pc \in StorePositions
    /\ store_ops < MaxStoreOps
    /\ user_profile' = calculate_value_weights(user_profile)
    /\ store_ops' = store_ops + 1
    /\ pc' = IF pc \in {"recomputed", "recomputed_again"} THEN "recomputed_again"
             ELSE "recomputed"
    /\ UNCHANGED extracted
    /\ StoreUnchanged

NextStore == StoreMerge \/ StoreRecompute

SpecStore == InitStore /\ [][NextStore]_vars

\* C9: after any sequence of merges and recomputes of v3 or v4, the weight of
\* every Value of the profile is at least 0 and at most 1.
C9_WeightsInUnitInterval ==
    \A n \in DOMAIN user_profile.values :
        /\ FloatLE(FZero, user_profile.values[n].weight)
        /\ FloatLE(user_profile.values[n].weight, F1_0)

\* a recompute has capped the weight of a Value with five phrases at 1.0
C9_Witness ==
    /\ pc = "recomputed"
    /\ \E n \in DOMAIN user_profile.values :
          /\ Len(user_profile.values[n].rationale) >= 5
          /\ user_profile.values[n].weight = F1_0

\* C10: in v4 every step of the store keeps each existing goal where it is,
\* unchanged in id and statement, and in the state it leads to the k-th goal
\* of the profile has the id g{k}: ids are pairwise distinct, follow the
\* order of creation, and a skipped text has consumed none.
C10_GoalIdsInIssuanceOrder ==
    [][variant = "v4" =>
          /\ \A k \in DOMAIN user_profile.goals' : user_profile.goals'[k].id = GoalId(k)
          /\ \A i, j \in DOMAIN user_profile.goals' :
                i # j => user_profile.goals'[i].id # user_profile.goals'[j].id
          /\ \A k \in DOMAIN user_profile.goals :
                /\ k \in DOMAIN user_profile.goals'
                /\ user_profile.goals'[k].id = user_profile.goals[k].id
                /\ user_profile.goals'[k].statement = user_profile.goals[k].statement]_vars

\* three goals were created while "new career" (overlapping), "run" (too
\* short) and "CAREER" (overlapping) were skipped
C10_Witness ==
    /\ variant = "v4"
    /\ Len(user_profile.goals) = 3
    /\ user_profile.goals[1].statement = Career
    /\ user_profile.goals[2].statement = Health
    /\ user_profile.goals[3].statement = Travel
    /\ user_profile.goals[3].id = GoalId(3)

\* C11: in v4 every Value of the profile is keyed by its name field, the key
\* is lowercased and trimmed, and no two Values have the same normalized
\* name: "Freedom", "freedom" and " freedom " all land in the one Value
\* keyed "freedom".
C11_ValuesKeyedByNormalizedName ==
    variant = "v4" =>
        /\ \A n \in DOMAIN user_profile.values :
              /\ user_profile.values[n].name = n
              /\ Strip(Lower(n)) = n
        /\ \A n, m \in DOMAIN user_profile.values :
              Strip(Lower(n)) = Strip(Lower(m)) => n = m
        /\ Freedom \notin DOMAIN user_profile.values
        /\ FreedomPadded \notin DOMAIN user_profile.values

\* one merge of a bundle that mentions the value in several spellings has
\* created the Value keyed "freedom" and reinforced it
C11_Witness ==
    /\ variant = "v4"
    /\ store_ops = 1
    /\ FreedomLower \in DOMAIN user_profile.values
    /\ user_profile.values[FreedomLower].rationale # <<>>
    /\ user_profile.values[FreedomLower].weight # F0_5
    /\ Cardinality(DOMAIN user_profile.values) = 1

\* C12: in v4 every step of the store leads to a profile in which no
\* statement of a goal contains the statement of another goal, compared in
\* lower case, and keeps the statement and the original_phrasing of every
\* goal that existed: an overlapping text creates no goal and changes none.
C12_NoOverlappingGoals ==
    [][variant = "v4" =>
          /\ \A i, j \in DOMAIN user_profile.goals' :
                i # j => ~IsSubstring(Lower(user_profile.goals'[i].statement),
                                      Lower(user_profile.goals'[j].statement))
          /\ \A k \in DOMAIN user_profile.goals :
                /\ k \in DOMAIN user_profile.goals'
                /\ user_profile.goals'[k].statement = user_profile.goals[k].statement
                /\ user_profile.goals'[k].original_phrasing =
                       user_profile.goals[k].original_phrasing]_vars

\* "career" and "Health" are the goals after two merges, the second of which
\* mentioned "CAREER"; "new career" came with the first
C12_Witness ==
    /\ variant = "v4"
    /\ pc = "merged"
    /\ store_ops = 2
    /\ IsObject(extracted)
    /\ Get(extracted, "goals_mentioned", <<>>) = <<Health, Run, CareerUpper>>
    /\ Len(user_profile.goals) = 2
    /\ user_profile.goals[1].statement = Career
    /\ user_profile.goals[1].original_phrasing = Career
    /\ user_profile.goals[2].statement = Health

\* C13: a recompute that directly follows a recompute leaves the profile, and
\* so every weight, as the first one left it; and after any recompute two
\* Values with the same number of rationale entries and the same confirmed
\* flag hold the same weight, whatever they held before.
C13_RecomputeIdempotent ==
    [][/\ (pc \in {"recomputed", "recomputed_again"} /\ pc' = "recomputed_again")
            => user_profile' = user_profile
       /\ pc' \in {"recomputed", "recomputed_again"}
            => \A n, m \in DOMAIN user_profile.values' :
                  (/\ Len(user_profile.values'[n].rationale)
                         = Len(user_profile.values'[m].rationale)
                   /\ user_profile.values'[n].confirmed = user_profile.values'[m].confirmed)
                  => user_profile.values'[n].weight = user_profile.values'[m].weight]_vars

\* two recomputes in a row on a profile of three or more Values, one of them
\* without rationale
C13_Witness ==
    /\ pc = "recomputed_again"
    /\ store_ops = MaxStoreOps
    /\ Cardinality(DOMAIN user_profile.values) >= 3
    /\ \E n \in DOMAIN user_profile.values : user_profile.values[n].rationale = <<>>

(***************************************************************************)
(* Properties of the v4 controller about extraction, metrics and the log,  *)
(* checked under Spec.                                                     *)
(***************************************************************************)
\* C14: when a pass has ended (suspended at reply_node or at END) the latest
\* user message of the log has been extracted and merged into the profile
\* exactly once, also when it came with the session start at stage 0.
C14_EachMessageMergedOnce ==
    (pc \in {"reply", "END"} /\ get_last_user_message(messages) # 0) => last_merges = 1

\* C15: a completion check that has just run was preceded by the merge of the
\* user message that triggered it, so the counts it used include that
\* message's facts.
C15_CheckAfterMerge ==
    lastCheck.stage \in 1..4 => last_merges >= 1

\* C16: every StageMetrics record without an end_time belongs to the stage
\* the session is in: the record of a stage the session has left is closed,
\* and at END (stage 5) no record is open.
C16_LeftStagesAreClosed ==
    \A i \in DOMAIN stage_metrics :
        ~stage_metrics[i].closed => stage_metrics[i].stage_name = StageName(stage)

(***************************************************************************)
(* The stage metrics on their own: any sequence of update_stage_metrics    *)
(* and finalize_stage_metrics calls (meta_agent_v4/utils.py:128-173, and   *)
(* meta_agent_v3/utils.py:82-125, the same code) on a fresh session.       *)
(* store_ops counts the calls.                                             *)
(***************************************************************************)
MetricStages == {"rapport_building", "value_discovery"}

\* the token estimates of a three-word and of a five-word text
MetricTokens == {TurnTokens(3), TurnTokens(5)}

InitMetrics ==
    /\ variant \in {"v3", "v4"}
    /\ stage = 0
    /\ messages = <<>>
    /\ user_profile = EmptyProfile
    /\ final_summary = ""
    /\ final_feedback = 0
    /\ stage_metrics = <<>>
    /\ total_turns = 0
    /\ pc = "metrics"
    /\ extracted = NoFacts
    /\ lastCheck = NoCheck
    /\ only_not_ready = TRUE
    /\ stage_changes = 0
    /\ feedback_turn = "none"
    /\ gen_failed = FALSE
    /\ store_ops = 0
    /\ last_merges = 0
    /\ FlagsInit

MetricsUnchanged ==
    UNCHANGED <<variant, stage, messages, user_profile, final_summary, final_feedback, pc,
                extracted, lastCheck, only_not_ready, stage_changes, feedback_turn,
                gen_failed, last_merges, intent_confirmed, values_confirmed,
                plan_generated, steps, invocations, advances, assessed, node_runs, telemetry,
      value_depth, stage_complete,
      parked, defaults, allocated>>

\* update_stage_metrics(state, stage_name, tokens) and the total_turns it returns
MetricsUpdate ==
    /\ pc = "metrics"
    /\ store_ops < MaxStoreOps
    /\ \E stage_name \in MetricStages, tokens \in MetricTokens :
          stage_metrics' = update_stage_metrics(stage_metrics, stage_name, tokens)
    /\ total_turns' = total_turns + 1
    /\ store_ops' = store_ops + 1
    /\ MetricsUnchanged

\* finalize_stage_metrics(state, stage_name)
MetricsFinalize ==
    /\ pc = "metrics"
    /\ store_ops < MaxStoreOps
    /\ \E stage_name \in MetricStages :
          stage_metrics' = finalize_stage_metrics(stage_metrics, stage_name)
    /\ store_ops' = store_ops + 1
    /\ UNCHANGED total_turns
    /\ MetricsUnchanged

NextMetrics == MetricsUpdate \/ MetricsFinalize

SpecMetrics == InitMetrics /\ [][NextMetrics]_vars

\* C17: every call of update_stage_metrics or finalize_stage_metrics, in v3
\* and in v4, leads to a list with at most one open record per stage name,
\* and leaves every closed record in place, closed, with the turn_count and
\* the total_tokens it had.
C17_OneOpenRecordClosedOnesFrozen ==
    [][/\ \A i, j \in DOMAIN stage_metrics' :
             (/\ ~stage_metrics'[i].closed
              /\ ~stage_metrics'[j].closed
              /\ stage_metrics'[i].stage_name = stage_metrics'[j].stage_name) => i = j
       /\ \A i \in DOMAIN stage_metrics :
             stage_metrics[i].closed
                => /\ i \in DOMAIN stage_metrics'
                   /\ stage_metrics'[i].closed
                   /\ stage_metrics'[i].turn_count = stage_metrics[i].turn_count
                   /\ stage_metrics'[i].total_tokens = stage_metrics[i].total_tokens]_vars

\* a stage was counted twice and closed, and a later update has opened a
\* second record of the same name
C17_Witness ==
    /\ pc = "metrics"
    /\ Len(stage_metrics) = 2
    /\ stage_metrics[1].stage_name = stage_metrics[2].stage_name
    /\ stage_metrics[1].closed
    /\ stage_metrics[1].turn_count = 2
    /\ stage_metrics[1].total_tokens > 0
    /\ ~stage_metrics[2].closed
    /\ stage_metrics[2].turn_count = 1

\* C18: in v4 no step changes final_summary once it is non-empty and no
\* step changes final_feedback once it is set, whatever the user sends and
\* the judgments answer.
C18_WriteOnce ==
    [][/\ final_summary # "" => final_summary' = final_summary
       /\ final_feedback # 0 => final_feedback' = final_feedback]_vars

(***************************************************************************)
(* C19: the introduction.                                                  *)
(***************************************************************************)
IntroductionsEmitted(msgs) ==
    Cardinality({i \in DOMAIN msgs : msgs[i] = AIMessage("introduction")})

\* C19: in v4 the log holds no introduction while the stage is 0 and exactly
\* one ever after; up to the introduction nothing was extracted, generated
\* or checked, and the pass that appends it leaves the stage at RAPPORT (1).
C19_IntroductionOnce ==
    /\ IntroductionsEmitted(messages) = IF stage = 0 THEN 0 ELSE 1
    /\ (stage = 0 \/ messages[Len(messages)] = AIMessage("introduction"))
          => /\ extracted = NoFacts
             /\ user_profile = EmptyProfile
             /\ lastCheck = NoCheck
             /\ ~gen_failed
             /\ \A i \in DOMAIN messages :
                   messages[i].role = "ai" => i = Len(messages) /\ stage = IntroductionStage

\* a session has run from the introduction through every stage to its end
\* and its log holds the one introduction, as its first message
C19_Witness ==
    /\ stage = EndStage
    /\ pc = "END"
    /\ IntroductionsEmitted(messages) = 1
    /\ messages[1] = AIMessage("introduction")
    /\ Len(messages) > 4

(***************************************************************************)
(* C20: the message log.                                                   *)
(***************************************************************************)
\* the position of the introduction in the log (0 while there is none)
IntroductionIndex(msgs) ==
    IF \E i \in DOMAIN msgs : msgs[i] = AIMessage("introduction")
    THEN CHOOSE i \in DOMAIN msgs : msgs[i] = AIMessage("introduction")
    ELSE 0

\* after the introduction a user message and an assistant message take turns
Alternates(msgs) ==
    IntroductionIndex(msgs) # 0
        => \A i \in (IntroductionIndex(msgs) + 1)..(Len(msgs) - 1) :
              msgs[i].role # msgs[i + 1].role

\* C20: in v4 every step leaves the messages of the log in place and only
\* appends to them, and after the introduction user and assistant messages
\* strictly alternate: no user message is accepted while the one before it has
\* no assistant message, and no two assistant messages follow one user message.
C20_AppendOnlyAlternating ==
    [][/\ Len(messages') >= Len(messages)
       /\ SubSeq(messages', 1, Len(messages)) = messages
       /\ Alternates(messages')]_vars

(***************************************************************************)
(* C21: the weight of a Value over the session.                            *)
(***************************************************************************)
\* C21: in v4 no step of a session, be it the preprocessor's merge or the
\* recompute value_discovery_node runs, leaves a Value the profile already
\* holds with a lower weight than it had before the step.
C21_WeightNeverDecreases ==
    [][\A n \in DOMAIN user_profile.values :
          /\ n \in DOMAIN user_profile'.values
          /\ FloatLE(user_profile.values[n].weight, user_profile'.values[n].weight)]_vars

(***************************************************************************)
(* Repeated mentions: update_knowledge_map (meta_agent_v4/knowledge.py:    *)
(* 89-159) applied to one bundle after another with no recompute between.  *)
(* Every bundle mentions "freedom" once, so store_ops is the number of     *)
(* mentions of that value.                                                 *)
(***************************************************************************)
MentionBundles ==
    { Facts(<<>>, <<Freedom>>, "", <<>>, <<>>),
      Facts(<<>>, <<Freedom, Growth>>, "", <<>>, <<Phrase1>>),
      Facts(<<>>, <<Family, FreedomPadded>>, "hopeful", <<>>, <<>>),
      Facts(<<Career>>, <<Growth, FreedomLower, Family>>, "", <<>>, <<Phrase2>>) }

InitMentions ==
    /\ variant = "v4"
    /\ stage = 0
    /\ messages = <<>>
    /\ user_profile = EmptyProfile
    /\ final_summary = ""
    /\ final_feedback = 0
    /\ stage_metrics = <<>>
    /\ total_turns = 0
    /\ pc = "mentions"
    /\ extracted = NoFacts
    /\ lastCheck = NoCheck
    /\ only_not_ready = TRUE
    /\ stage_changes = 0
    /\ feedback_turn = "none"
    /\ gen_failed = FALSE
    /\ store_ops = 0
    /\ last_merges = 0
    /\ FlagsInit

\* update_knowledge_map(state, extracted) with a bundle that mentions the value
MentionMerge ==
    /\ pc = "mentions"
    /\ store_ops < MaxMentions
    /\ \E bundle \in MentionBundles :
          /\ extracted' = bundle
          /\ user_profile' = update_knowledge_map(user_profile, bundle)
    /\ store_ops' = store_ops + 1
    /\ UNCHANGED pc
    /\ StoreUnchanged

NextMentions == MentionMerge

SpecMentions == InitMentions /\ [][NextMentions]_vars

\* C22: under merges alone a value has weight 0.5 after its first mention and
\* min(1.0, 0.5 + 0.1 * (k - 1)) after its k-th mention in separate bundles:
\* 0.6 after the 2nd, 0.7, 0.8, 0.9, exactly 1.0 after the 6th and still 1.0
\* after the 7th and later ones.
C22_WeightAfterKMentions ==
    LET \* the doubles of 0.6 = 0x1.3333333333333p-1, 0.7 = 0x1.6666666666666p-1,
        \* 0.8 = 0x1.999999999999ap-1 and 0.9 = 0x1.ccccccccccccdp-1
        Expected == <<F0_5, <<161061273, 161061272>>, <<187904819, 53687088>>,
                      <<214748364, 214748368>>, <<241591910, 107374184>>, F1_0>>
        k == store_ops
        name == FreedomLower
    IN  (pc = "mentions" /\ k >= 1)
            => /\ name \in DOMAIN user_profile.values
               /\ user_profile.values[name].weight = Expected[IF k < 6 THEN k ELSE 6]

(***************************************************************************)
(* C23: IntentContext.goal_statement.                                      *)
(***************************************************************************)
\* C23: in v4 the goal statement of the intent context is empty exactly
\* while the profile has no goal, every step that leaves the profile with a
\* goal leaves it equal to the statement of goal g1, and no step changes it
\* once it is filled.
C23_GoalStatementFilledOnce ==
    [][variant = "v4" =>
          LET before == user_profile.intent_context.goal_statement
              after == user_profile'.intent_context.goal_statement
              goals == user_profile'.goals
          IN  /\ goals = <<>> => after = <<>>
              /\ goals # <<>> => goals[1].id = GoalId(1) /\ after = goals[1].statement
              /\ before # <<>> => after = before]_vars

\* a second goal was created by a later merge and the goal statement is
\* still the statement of g1
C23_Witness ==
    /\ variant = "v4"
    /\ pc = "merged"
    /\ store_ops >= 2
    /\ Len(user_profile.goals) >= 2
    /\ user_profile.goals[Len(user_profile.goals)].statement
           \in {Get(extracted, "goals_mentioned", <<>>)[i] :
                   i \in DOMAIN Get(extracted, "goals_mentioned", <<>>)}
    /\ user_profile.intent_context.goal_statement = user_profile.goals[1].statement
    /\ user_profile.intent_context.goal_statement # user_profile.goals[2].statement

(***************************************************************************)
(* extract_knowledge as a function (meta_agent_v4/knowledge.py:14-84,      *)
(* meta_agent_v3/knowledge.py:16-86): calls with a text and an answer of   *)
(* the service, in sessions in any stage with an empty or a filled         *)
(* profile.  The log holds the text of the call as its one user message;   *)
(* pc is "returned_fallback" after a call that left through the except     *)
(* clause and "returned_parsed" after one that returned json.loads' value. *)
(***************************************************************************)
\* texts of 1, 19, 20, 49, 50, 51 and 60 words; the last two are longer than
\* 100 characters
ExtractTexts == {1, 19, 20, 49, 50, 51, 60}

InvalidObject == [json |-> "invalid_object", obj |-> <<>>]

\* answers of the service: the call raises; a text that is no JSON, plain or
\* in a fence; a fenced {...} that does not parse; a fenced array (the fence
\* does not match and the whole text does not parse); and three that parse
ExtractResponses ==
    { Response(TRUE, FALSE, NoFacts),
      Response(FALSE, FALSE, NotJson),
      Response(FALSE, TRUE, NotJson),
      Response(FALSE, TRUE, InvalidObject),
      Response(FALSE, FALSE, InvalidObject),
      Response(FALSE, TRUE, JsonArray),
      Response(FALSE, FALSE, FullFacts),
      Response(FALSE, TRUE, FullFacts),
      Response(FALSE, FALSE, JsonArray) }

InitExtract ==
    /\ variant \in {"v3", "v4"}
    /\ stage \in 1..4
    /\ \E text \in ExtractTexts : messages = <<HumanMessage(text)>>
    /\ user_profile \in {EmptyProfile, update_knowledge_map(EmptyProfile, FullFacts)}
    /\ final_summary = ""
    /\ final_feedback = 0
    /\ stage_metrics = <<>>
    /\ total_turns = 0
    /\ pc = "extract"
    /\ extracted = NoFacts
    /\ lastCheck = NoCheck
    /\ only_not_ready = TRUE
    /\ stage_changes = 0
    /\ feedback_turn = "none"
    /\ gen_failed = FALSE
    /\ store_ops = 0
    /\ last_merges = 0
    /\ FlagsInit

ExtractPositions == {"extract", "returned_fallback", "returned_parsed"}

\* extract_knowledge(user_message, llm)
ExtractCall ==
    /\ pc \in ExtractPositions
    /\ \E response \in ExtractResponses :
          /\ extracted' = extract_knowledge(get_last_user_message(messages), response)
          /\ pc' = IF response.raises \/ LoadsFails(response) THEN "returned_fallback"
                   ELSE "returned_parsed"
    /\ UNCHANGED <<messages, user_profile, store_ops>>
    /\ StoreUnchanged

\* the next call is made with another text
ExtractNewText ==
    /\ pc \in ExtractPositions \ {"extract"}
    /\ \E text \in ExtractTexts \ {get_last_user_message(messages)} :
          messages' = <<HumanMessage(text)>>
    /\ pc' = "extract"
    /\ extracted' = NoFacts
    /\ UNCHANGED <<variant, stage, user_profile, final_summary, final_feedback, stage_metrics,
                   total_turns, lastCheck, only_not_ready, stage_changes, feedback_turn,
                   gen_failed, store_ops, last_merges>>
    /\ FlagsUnchanged

NextExtract == ExtractCall \/ ExtractNewText

SpecExtract == InitExtract /\ [][NextExtract]_vars

\* C24: a call of extract_knowledge that the service answered with a
\* malformed output returns Facts that the user text alone determines: the
\* length bucket is short, medium or long for fewer than 20, fewer than 50
\* or at least 50 words, the one key phrase is the first 100 characters of
\* the text, and a call that follows with the same text and another
\* malformed output returns equal Facts, in every stage and with every
\* profile.
C24_FallbackDependsOnTextOnly ==
    [][pc' = "returned_fallback" =>
          LET text == TextOf(get_last_user_message(messages'))
              words == WordCount(text)
          IN  /\ IsFacts(extracted')
              /\ Get(extracted', "message_length", "") =
                    (IF words < 20 THEN "short" ELSE IF words < 50 THEN "medium" ELSE "long")
              /\ Get(extracted', "key_phrases", <<>>) =
                    <<SubSeq(text, 1, IF Len(text) < 100 THEN Len(text) ELSE 100)>>
              /\ (pc = "returned_fallback" /\ messages' = messages)
                    => extracted' = extracted]_vars

\* a text of 51 words (101 characters) got the fallback twice in a row
C24_Witness ==
    /\ pc = "returned_fallback"
    /\ messages = <<HumanMessage(51)>>
    /\ Get(extracted, "message_length", "") = "long"
    /\ Len(Get(extracted, "key_phrases", <<>>)[1]) = 100
    /\ stage = 3
    /\ user_profile # EmptyProfile

(***************************************************************************)
(* The controller of meta_agent_v3 (graph.py:38-137).  The graph is        *)
(* compiled without an interrupt: every invocation enters at the           *)
(* introduction node, and each stage node is followed by its completion    *)
(* check, whose router goes back to the stage node or on to the next one   *)
(* within the same invocation.  An invocation runs at most RecursionLimit  *)
(* nodes and ends with GraphRecursionError when more would be needed.      *)
(* MetaAgentState of v3 (state.py) is not in the sources: its fields are   *)
(* the ones nodes.py and router.py read and write, with the defaults of    *)
(* meta_agent_v4/state.py:80-103 and False for the three flags.            *)
(***************************************************************************)
\* invocations of the v3 graph in a session
MaxInvocations == 3
\* node executions of the v3 graph in a session, all invocations together
MaxNodeRuns == 30
\* the default recursion_limit of the graph workflow.compile() returns
RecursionLimit == 25

\* thresholds of assess_rapport_completion
V3RapportCeiling == 8
V3RapportMinTurns == 3
V3MinGoals == 1
\* thresholds of assess_value_discovery_completion
V3ValueDiscoveryCeiling == 10
V3ValueDiscoveryMinTurns == 3
V3MinValues == 3
V3FallbackValues == 4
V3FallbackValueTurns == 4
\* thresholds of assess_value_ranking_completion
V3RankingCeiling == 6
V3RankingMinTurns == 2
V3FallbackRankingTurns == 3
\* thresholds of assess_action_planning_completion
V3PlanningCeiling == 7
V3PlanningMinTurns == 2
V3MinActions == 3
V3FallbackPlanningTurns == 3
\* the stage numbers the v3 nodes write
V3ValueRanking == 3
V3ActionPlanning == 4
V3Summary == 5

\* stage_names of count_user_messages_in_stage (utils.py:139-146)
V3StageName(s) ==
    CASE s = 0 -> "introduction"
      [] s = 1 -> "rapport_building"
      [] s = 2 -> "value_discovery"
      [] s = 3 -> "value_ranking"
      [] s = 4 -> "action_planning"
      [] s = 5 -> "summary_feedback"
      [] OTHER -> ""

\* count_user_messages_in_stage of v3 (utils.py:128-157)
V3count_user_messages_in_stage(metrics, s) ==
    LET stage_name == V3StageName(s)
        open == OpenMetrics(metrics, stage_name)
    IN  IF stage_name = "" \/ open = {} THEN 0 ELSE metrics[FirstOf(open)].turn_count

\* router.py:11-23: messages[2] is the third message of the log
route_after_introduction(msgs) ==
    IF Len(msgs) > 2 /\ msgs[3].role = "human" THEN "rapport_building" ELSE "END"

\* router.py:26-37
route_after_rapport(confirmed) ==
    IF confirmed THEN "value_discovery" ELSE "rapport_building"

\* router.py:40-52
route_after_value_discovery(s) ==
    IF s >= V3ValueRanking THEN "value_ranking" ELSE "value_discovery"

\* router.py:55-66
route_after_value_ranking(confirmed, s) ==
    IF confirmed \/ s >= V3ActionPlanning THEN "action_planning" ELSE "value_ranking"

\* router.py:69-80
route_after_action_planning(generated, s) ==
    IF generated \/ s >= V3Summary THEN "summary_feedback" ELSE "action_planning"

\* router.py:83-102; "__end__" is mapped to the finalize node (graph.py:124-131)
route_after_summary(metrics, feedback) ==
    IF V3count_user_messages_in_stage(metrics, V3Summary) >= 1 /\ feedback # 0
    THEN "finalize" ELSE "summary_feedback"

(***************************************************************************)
(* The judgments of the v3 completion checks, as in Judgments: a parsed    *)
(* ready_to_advance true or false, content json.loads rejects, and a call  *)
(* that raises.  llm.invoke is called before the try (nodes.py:139-142,    *)
(* 266-269, 389-392, 543-546): when it raises, the node raises.            *)
(***************************************************************************)
V3Judgments == {"ready", "not_ready", "unparseable", "raises"}

\* mutant: the forced advance of RAPPORT comes one turn late
assess_rapport_late(judgment, turn_count, goals_count) ==
    CASE judgment = "ready" -> turn_count >= V3RapportMinTurns
      [] judgment = "not_ready" -> turn_count > V3RapportCeiling
      [] judgment = "unparseable" ->
            (goals_count >= V3MinGoals /\ turn_count >= V3RapportMinTurns)
                \/ turn_count > V3RapportCeiling
      [] OTHER -> FALSE

\* the decision of assess_rapport_completion (nodes.py:146-183)
assess_rapport(judgment, turn_count, goals_count) ==
    CASE judgment = "ready" -> turn_count >= V3RapportMinTurns \/ turn_count >= V3RapportCeiling
      [] judgment = "not_ready" -> turn_count >= V3RapportCeiling
      [] judgment = "unparseable" ->
            (goals_count >= V3MinGoals /\ turn_count >= V3RapportMinTurns)
                \/ turn_count >= V3RapportCeiling
      [] OTHER -> FALSE

\* the decision of assess_value_discovery_completion (nodes.py:273-306)
assess_value_discovery(judgment, turn_count, value_count) ==
    CASE judgment = "ready" ->
            (value_count >= V3MinValues /\ turn_count >= V3ValueDiscoveryMinTurns)
                \/ turn_count >= V3ValueDiscoveryCeiling
      [] judgment = "not_ready" -> turn_count >= V3ValueDiscoveryCeiling
      [] judgment = "unparseable" ->
            (value_count >= V3FallbackValues /\ turn_count >= V3FallbackValueTurns)
                \/ turn_count >= V3ValueDiscoveryCeiling
      [] OTHER -> FALSE

\* the decision of assess_value_ranking_completion (nodes.py:395-428)
assess_value_ranking(judgment, turn_count) ==
    CASE judgment = "ready" -> turn_count >= V3RankingMinTurns \/ turn_count >= V3RankingCeiling
      [] judgment = "not_ready" -> turn_count >= V3RankingCeiling
      [] judgment = "unparseable" ->
            turn_count >= V3FallbackRankingTurns \/ turn_count >= V3RankingCeiling
      [] OTHER -> FALSE

\* the decision of assess_action_planning_completion (nodes.py:549-583)
assess_action_planning(judgment, turn_count, actions_count) ==
    CASE judgment = "ready" ->
            (actions_count >= V3MinActions /\ turn_count >= V3PlanningMinTurns)
                \/ turn_count >= V3PlanningCeiling
      [] judgment = "not_ready" -> turn_count >= V3PlanningCeiling
      [] judgment = "unparseable" ->
            (actions_count >= V3MinActions /\ turn_count >= V3FallbackPlanningTurns)
                \/ turn_count >= V3PlanningCeiling
      [] OTHER -> FALSE

\* what the text-understanding service answers in a v3 session
V3Responses == { Response(FALSE, FALSE, FullFacts), Response(TRUE, FALSE, NotJson) }

\* the list items re.findall gives for a generated plan (nodes.py:485)
V3ActionResponses ==
    { <<>>,
      <<ActionItem("a1", 40, {Growth}), ActionItem("a2", 40, {}), ActionItem("a3", 40, {})>> }

\* nodes.py:488-503, one list item: no length filter, linked_values are the
\* keys whose lower-cased name is in the lower-cased text
V3AddAction(profile, item) ==
    IF \E i \in DOMAIN profile.suggested_actions :
            profile.suggested_actions[i].description = item.description
    THEN profile
    ELSE [profile EXCEPT !.suggested_actions =
            Append(@, [description |-> item.description,
                       linked_values |-> {k \in DOMAIN profile.values :
                                            Lower(k) \in {Lower(v) : v \in item.mentions}},
                       user_feedback |-> 0,
                       fit_score |-> "0.8"])]

RECURSIVE V3AddActions(_, _)
V3AddActions(profile, items) ==
    IF items = <<>> THEN profile
    ELSE V3AddActions(V3AddAction(profile, Head(items)), Tail(items))

\* nodes.py:460-465: the last suggested action takes the user's text
V3StoreFeedback(profile, user_message) ==
    LET n == Len(profile.suggested_actions)
    IN  IF user_message # 0 /\ n > 0
        THEN [profile EXCEPT !.suggested_actions[n].user_feedback = user_message]
        ELSE profile

\* MetaAgentState() of v3 before the first invocation
InitV3 ==
    /\ variant = "v3"
    /\ stage = 0
    /\ messages = <<>>
    /\ user_profile = EmptyProfile
    /\ final_summary = ""
    /\ final_feedback = 0
    /\ stage_metrics = <<>>
    /\ total_turns = 0
    /\ pc = "idle"
    /\ extracted = NoFacts
    /\ lastCheck = NoCheck
    /\ only_not_ready = TRUE
    /\ stage_changes = 0
    /\ feedback_turn = "none"
    /\ gen_failed = FALSE
    /\ store_ops = 0
    /\ last_merges = 0
    /\ FlagsInit

\* what no node of the v3 graph writes.  extracted holds what
\* extract_knowledge returns for the latest user message: the service gives
\* the same answer each time a node sends it the same text.
V3Unchanged ==
    UNCHANGED <<variant, extracted, stage_changes, feedback_turn, store_ops, invocations,
                telemetry, value_depth, stage_complete,
                parked, defaults, allocated>>

\* the outcomes of a generation call: it returns a text or raises, and at
\* most one generation call of a session raises
V3Generated == IF gen_failed THEN {TRUE} ELSE BOOLEAN

\* one node execution of the running invocation
V3Step ==
    /\ steps < RecursionLimit
    /\ node_runs < MaxNodeRuns
    /\ steps' = steps + 1
    /\ node_runs' = node_runs + 1

\* graph.invoke: the input's messages are added to the log (add_messages) and
\* the run starts at the entry point (graph.py:61)
V3Invoke(with_message) ==
    /\ variant = "v3"
    /\ pc \in {"idle", "END", "aborted"}
    /\ invocations < MaxInvocations
    /\ ~with_message => HumanCount(messages) = 0
    /\ invocations' = invocations + 1
    /\ messages' = IF with_message
                   THEN Append(messages, HumanMessage(HumanCount(messages) + 1))
                   ELSE messages
    /\ \E response \in V3Responses :
          extracted' = IF with_message
                       THEN extract_knowledge(HumanCount(messages) + 1, response)
                       ELSE extracted
    /\ steps' = 0
    /\ advances' = 0
    /\ telemetry' = "none"
    /\ last_merges' = IF with_message THEN 0 ELSE last_merges
    /\ lastCheck' = NoCheck
    /\ pc' = "introduction"
    /\ UNCHANGED <<variant, stage, user_profile, final_summary, final_feedback, stage_metrics,
                   total_turns, only_not_ready, stage_changes, feedback_turn,
                   gen_failed, store_ops, intent_confirmed, values_confirmed,
                   plan_generated, assessed, node_runs, value_depth, stage_complete,
                   parked, defaults, allocated>>

\* the run needs a node beyond the recursion limit: GraphRecursionError
GraphRecursionError ==
    /\ variant = "v3"
    /\ pc \notin {"idle", "END", "aborted"}
    /\ steps >= RecursionLimit
    /\ pc' = "aborted"
    /\ UNCHANGED <<variant, stage, messages, user_profile, final_summary, final_feedback,
                   stage_metrics, total_turns, extracted, lastCheck, only_not_ready,
                   stage_changes, feedback_turn, gen_failed, store_ops, last_merges>>
    /\ FlagsUnchanged

\* introduction_node (nodes.py:44-62) and route_after_introduction
introduction_node ==
    /\ pc = "introduction"
    /\ V3Step
    /\ messages' = Append(messages, AIMessage("introduction"))
    /\ stage' = 0
    /\ stage_metrics' = update_stage_metrics(stage_metrics, "introduction", TurnTokens(0))
    /\ total_turns' = total_turns + 1
    /\ pc' = route_after_introduction(messages')
    /\ UNCHANGED <<user_profile, final_summary, final_feedback, lastCheck, only_not_ready,
                   gen_failed, intent_confirmed, values_confirmed, plan_generated,
                   advances, assessed, last_merges>>
    /\ V3Unchanged

\* The body the stage nodes rapport_building, value_discovery and
\* value_ranking share: extract, merge in place, generate, count the turn.
\* update_knowledge_map reads extracted.get first (knowledge.py:104); the
\* generation call is in no try, and when it raises the run ends with the
\* profile merged in place or not.
V3StageTurn(s, recompute, next_pc) ==
    LET user_message == get_last_user_message(messages)
    IN  \E generated \in V3Generated :
           LET merged == update_knowledge_map_v3(user_profile, extracted)
               profile == IF user_message = 0 THEN user_profile
                          ELSE IF recompute THEN calculate_value_weights(merged)
                          ELSE merged
           IN  IF generated
               THEN /\ user_profile' = profile
                    /\ messages' = Append(messages, AIMessage("question"))
                    /\ stage' = s
                    /\ stage_metrics' = update_stage_metrics(stage_metrics, V3StageName(s),
                                                             TurnTokens(user_message))
                    /\ total_turns' = total_turns + 1
                    /\ pc' = next_pc
                    /\ last_merges' = IF user_message = 0 THEN last_merges
                                       ELSE last_merges + 1
                    /\ UNCHANGED gen_failed
               ELSE /\ \/ user_profile' = user_profile /\ UNCHANGED last_merges
                       \/ /\ user_message # 0
                          /\ user_profile' = profile
                          /\ last_merges' = last_merges + 1
                    /\ gen_failed' = TRUE
                    /\ pc' = "aborted"
                    /\ UNCHANGED <<stage, messages, stage_metrics, total_turns>>

\* the early return of a stage node that finds no user message
V3NoMessage(next_pc) ==
    /\ messages' = Append(messages, AIMessage("fallback"))
    /\ pc' = next_pc
    /\ UNCHANGED <<stage, user_profile, stage_metrics, total_turns, gen_failed, last_merges>>

\* rapport_building_node (nodes.py:67-116), then the edge to assess_rapport
rapport_building_node ==
    /\ pc = "rapport_building"
    /\ V3Step
    /\ IF get_last_user_message(messages) = 0
       THEN V3NoMessage("assess_rapport")
       ELSE V3StageTurn(1, FALSE, "assess_rapport")
    /\ UNCHANGED <<final_summary, final_feedback, lastCheck, only_not_ready, intent_confirmed,
                   values_confirmed, plan_generated, advances, assessed>>
    /\ V3Unchanged

\* what a completion check of stage s does with its decision: the stage's
\* metrics are closed and the next stage is written on an advance, nothing
\* is written otherwise; a raising call ends the run
V3Assess(s, turn_count, count, judgment, advance) ==
    /\ lastCheck' = Check(s, turn_count, count, judgment, advance)
    /\ stage' = IF advance THEN s + 1 ELSE stage
    /\ stage_metrics' = IF advance THEN finalize_stage_metrics(stage_metrics, V3StageName(s))
                        ELSE stage_metrics
    /\ advances' = IF advance THEN advances + 1 ELSE advances
    /\ UNCHANGED <<messages, user_profile, final_summary, final_feedback, total_turns,
                   gen_failed, last_merges>>
    /\ V3Unchanged

\* assess_rapport_completion (nodes.py:119-183) and route_after_rapport
assess_rapport_completion ==
    /\ pc = "assess_rapport"
    /\ V3Step
    /\ \E judgment \in V3Judgments :
          LET turn_count == V3count_user_messages_in_stage(stage_metrics, 1)
              goals_count == Len(user_profile.goals)
              advance == assess_rapport(judgment, turn_count, goals_count)
          IN  /\ V3Assess(1, turn_count, goals_count, judgment, advance)
              /\ intent_confirmed' = (intent_confirmed \/ advance)
              /\ only_not_ready' = (only_not_ready /\ judgment = "not_ready")
              /\ pc' = IF judgment = "raises" THEN "aborted"
                       ELSE route_after_rapport(intent_confirmed')
    /\ assessed' = assessed + 1
    /\ UNCHANGED <<values_confirmed, plan_generated>>

\* value_discovery_node (nodes.py:188-242)
value_discovery_node ==
    /\ pc = "value_discovery"
    /\ V3Step
    /\ IF get_last_user_message(messages) = 0
       THEN V3NoMessage("assess_value_discovery")
       ELSE V3StageTurn(2, TRUE, "assess_value_discovery")
    /\ UNCHANGED <<final_summary, final_feedback, lastCheck, only_not_ready, intent_confirmed,
                   values_confirmed, plan_generated, advances, assessed>>
    /\ V3Unchanged

\* assess_value_discovery_completion (nodes.py:245-306) and
\* route_after_value_discovery
assess_value_discovery_completion ==
    /\ pc = "assess_value_discovery"
    /\ V3Step
    /\ \E judgment \in V3Judgments :
          LET turn_count == V3count_user_messages_in_stage(stage_metrics, 2)
              value_count == Cardinality(DOMAIN user_profile.values)
              advance == assess_value_discovery(judgment, turn_count, value_count)
          IN  /\ V3Assess(2, turn_count, value_count, judgment, advance)
              /\ pc' = IF judgment = "raises" THEN "aborted"
                       ELSE route_after_value_discovery(stage')
    /\ UNCHANGED <<only_not_ready, intent_confirmed, values_confirmed, plan_generated,
                   assessed>>

\* value_ranking_node (nodes.py:311-368): it generates with or without a
\* user message
value_ranking_node ==
    /\ pc = "value_ranking"
    /\ V3Step
    /\ V3StageTurn(V3ValueRanking, FALSE, "assess_value_ranking")
    /\ UNCHANGED <<final_summary, final_feedback, lastCheck, only_not_ready, intent_confirmed,
                   values_confirmed, plan_generated, advances, assessed>>
    /\ V3Unchanged

\* assess_value_ranking_completion (nodes.py:371-428) and
\* route_after_value_ranking
assess_value_ranking_completion ==
    /\ pc = "assess_value_ranking"
    /\ V3Step
    /\ \E judgment \in V3Judgments :
          LET turn_count == V3count_user_messages_in_stage(stage_metrics, V3ValueRanking)
              advance == assess_value_ranking(judgment, turn_count)
          IN  /\ V3Assess(V3ValueRanking, turn_count, 0, judgment, advance)
              /\ values_confirmed' = (values_confirmed \/ advance)
              /\ pc' = IF judgment = "raises" THEN "aborted"
                       ELSE route_after_value_ranking(values_confirmed', stage')
    /\ UNCHANGED <<only_not_ready, intent_confirmed, plan_generated, assessed>>

\* action_planning_node (nodes.py:433-514): the extraction result is not
\* merged; the user's text goes to the last suggested action in place before
\* the generation call (line 478), the list items are added after it
action_planning_node ==
    /\ pc = "action_planning"
    /\ V3Step
    /\ LET user_message == get_last_user_message(messages)
           noted == V3StoreFeedback(user_profile, user_message)
       IN  \E items \in V3ActionResponses, generated \in V3Generated :
              IF generated
              THEN /\ user_profile' = V3AddActions(noted, items)
                   /\ messages' = Append(messages, AIMessage("plan"))
                   /\ stage' = V3ActionPlanning
                   /\ stage_metrics' = update_stage_metrics(stage_metrics, "action_planning",
                                                            TurnTokens(user_message))
                   /\ total_turns' = total_turns + 1
                   /\ pc' = "assess_action_planning"
                   /\ UNCHANGED gen_failed
              ELSE /\ user_profile' \in {user_profile, noted}
                   /\ gen_failed' = TRUE
                   /\ pc' = "aborted"
                   /\ UNCHANGED <<stage, messages, stage_metrics, total_turns>>
    /\ UNCHANGED <<final_summary, final_feedback, lastCheck, only_not_ready, intent_confirmed,
                   values_confirmed, plan_generated, advances, assessed, last_merges>>
    /\ V3Unchanged

\* assess_action_planning_completion (nodes.py:517-583) and
\* route_after_action_planning
assess_action_planning_completion ==
    /\ pc = "assess_action_planning"
    /\ V3Step
    /\ \E judgment \in V3Judgments :
          LET turn_count == V3count_user_messages_in_stage(stage_metrics, V3ActionPlanning)
              actions_count == Len(user_profile.suggested_actions)
              advance == assess_action_planning(judgment, turn_count, actions_count)
          IN  /\ V3Assess(V3ActionPlanning, turn_count, actions_count, judgment, advance)
              /\ plan_generated' = (plan_generated \/ advance)
              /\ pc' = IF judgment = "raises" THEN "aborted"
                       ELSE route_after_action_planning(plan_generated', stage')
    /\ UNCHANGED <<only_not_ready, intent_confirmed, values_confirmed, assessed>>

\* summary_feedback_node (nodes.py:588-654) and route_after_summary
summary_feedback_node ==
    /\ pc = "summary_feedback"
    /\ V3Step
    /\ LET user_message == get_last_user_message(messages)
           turn_count == V3count_user_messages_in_stage(stage_metrics, V3Summary)
       IN  IF turn_count = 0
           THEN \E generated \in V3Generated :
                   IF generated
                   THEN /\ messages' = Append(messages, AIMessage("summary"))
                        /\ stage' = V3Summary
                        /\ final_summary' = SummaryText(SummariesEmitted(messages) + 1)
                        /\ stage_metrics' = update_stage_metrics(stage_metrics,
                                                "summary_feedback", TurnTokens(0))
                        /\ total_turns' = total_turns + 1
                        /\ pc' = route_after_summary(stage_metrics', final_feedback)
                        /\ UNCHANGED <<final_feedback, gen_failed>>
                   ELSE /\ gen_failed' = TRUE
                        /\ pc' = "aborted"
                        /\ UNCHANGED <<messages, stage, final_summary, final_feedback,
                                       stage_metrics, total_turns>>
           ELSE IF user_message # 0
           THEN /\ final_feedback' = user_message
                /\ stage_metrics' = update_stage_metrics(
                                        finalize_stage_metrics(stage_metrics, "summary_feedback"),
                                        "summary_feedback", TurnTokens(user_message))
                /\ total_turns' = total_turns + 1
                /\ messages' = Append(messages, AIMessage("closing"))
                /\ pc' = route_after_summary(stage_metrics', final_feedback')
                /\ UNCHANGED <<stage, final_summary, gen_failed>>
           ELSE /\ stage' = V3Summary
                /\ pc' = route_after_summary(stage_metrics, final_feedback)
                /\ UNCHANGED <<messages, final_summary, final_feedback, stage_metrics,
                               total_turns, gen_failed>>
    /\ UNCHANGED <<user_profile, lastCheck, only_not_ready, intent_confirmed,
                   values_confirmed, plan_generated, advances, assessed, last_merges>>
    /\ V3Unchanged

\* _finalize_session (graph.py:140-156), then the edge to END: the logging is
\* in a try and the node returns {}
V3Finalize ==
    /\ pc = "finalize"
    /\ variant = "v3"
    /\ V3Step
    /\ \E outcome \in TelemetryOutcomes :
          /\ telemetry' = outcome
          /\ pc' = finalize_session(outcome)
    /\ UNCHANGED <<stage, messages, user_profile, final_summary, final_feedback,
                   stage_metrics, total_turns, lastCheck, only_not_ready, gen_failed,
                   intent_confirmed, values_confirmed, plan_generated, advances, assessed,
                   last_merges>>
    /\ UNCHANGED <<variant, extracted, stage_changes, feedback_turn, store_ops, invocations,
                   value_depth, stage_complete,
                   parked, defaults, allocated>>

NextV3 ==
    \/ \E with_message \in BOOLEAN : V3Invoke(with_message)
    \/ GraphRecursionError
    \/ introduction_node
    \/ rapport_building_node
    \/ assess_rapport_completion
    \/ value_discovery_node
    \/ assess_value_discovery_completion
    \/ value_ranking_node
    \/ assess_value_ranking_completion
    \/ action_planning_node
    \/ assess_action_planning_completion
    \/ summary_feedback_node
    \/ V3Finalize

SpecV3 == InitV3 /\ [][NextV3]_vars

(***************************************************************************)
(* C25.  In v3, while every judgment of assess_rapport_completion is a     *)
(* parsed not ready and the profile holds no goal, the 1st to 7th run of   *)
(* the check leave the stage at RAPPORT (1), and the 8th run sets the      *)
(* stage to VALUE_DISCOVERY (2), after which route_after_rapport routes to *)
(* value_discovery.  The states looked at are the ones the check has just  *)
(* left: the next node is the one its router chose.                        *)
(***************************************************************************)
C25_RapportCeilingForcesAdvance ==
    (/\ variant = "v3"
     /\ lastCheck.stage = 1
     /\ pc \in {"rapport_building", "value_discovery"}
     /\ only_not_ready
     /\ lastCheck.count = 0
     /\ assessed <= V3RapportCeiling)
        => IF assessed < V3RapportCeiling
           THEN stage = 1 /\ ~lastCheck.advanced /\ ~intent_confirmed
                    /\ pc = "rapport_building"
           ELSE stage = 2 /\ lastCheck.advanced /\ intent_confirmed
                    /\ pc = "value_discovery"

\* the 8th check in a row has answered not ready with no goal in the profile
C25_Witness ==
    /\ variant = "v3"
    /\ lastCheck.stage = 1
    /\ lastCheck.judgment = "not_ready"
    /\ only_not_ready
    /\ Len(user_profile.goals) = 0
    /\ assessed = V3RapportCeiling
    /\ lastCheck.turn_count = V3RapportCeiling
    /\ stage = 2
    /\ pc = "value_discovery"

(***************************************************************************)
(* C26.  In v3 one graph invocation applies at most one stage transition:  *)
(* once a completion check of the invocation has advanced the stage, the   *)
(* same invocation makes no further advance and appends no further         *)
(* generated message.                                                      *)
(***************************************************************************)
C26_OneTransitionPerInvocation ==
    [][(variant = "v3" /\ advances >= 1 /\ invocations' = invocations)
          => (advances' = advances /\ messages' = messages)]_vars

(***************************************************************************)
(* C27.  In v3 final_feedback is unset until the summary has been emitted, *)
(* and a final_feedback that is set is the text of a user message that     *)
(* stands in the log after a summary message: the pass that first enters   *)
(* SUMMARY sets final_summary and leaves final_feedback unset.             *)
(***************************************************************************)
C27_FeedbackFollowsSummary ==
    (variant = "v3" /\ final_feedback # 0)
        => /\ final_summary # ""
           /\ \E i \in DOMAIN messages, j \in DOMAIN messages :
                 /\ i < j
                 /\ messages[i].kind = "summary"
                 /\ messages[j] = HumanMessage(final_feedback)

(***************************************************************************)
(* C28.  In v3, when the judgment call of a completion check raises, the   *)
(* check still returns the decision of its deterministic fallback rule     *)
(* and the invocation goes on: the exception does not end the run.         *)
(***************************************************************************)
C28_JudgmentFailureRecovered ==
    (variant = "v3" /\ lastCheck.judgment = "raises")
        => /\ pc # "aborted"
           /\ lastCheck.stage = 1 =>
                 lastCheck.advanced = assess_rapport("unparseable", lastCheck.turn_count,
                                                     lastCheck.count)
           /\ lastCheck.stage = 2 =>
                 lastCheck.advanced = assess_value_discovery("unparseable",
                                          lastCheck.turn_count, lastCheck.count)

(***************************************************************************)
(* C29.  In v3 a stage advances before its ceiling only when its           *)
(* deterministic minimums are met, whatever the judgment answers: RAPPORT  *)
(* (ceiling 8) only with at least 1 goal and at least 3 turns,             *)
(* VALUE_DISCOVERY (ceiling 10) only with at least 3 values and at least   *)
(* 3 turns.                                                                *)
(***************************************************************************)
C29_AdvanceNeedsMinimums ==
    (variant = "v3" /\ lastCheck.advanced)
        => /\ (lastCheck.stage = 1 /\ lastCheck.turn_count < V3RapportCeiling)
                 => (lastCheck.count >= V3MinGoals
                        /\ lastCheck.turn_count >= V3RapportMinTurns)
           /\ (lastCheck.stage = 2 /\ lastCheck.turn_count < V3ValueDiscoveryCeiling)
                 => (lastCheck.count >= V3MinValues
                        /\ lastCheck.turn_count >= V3ValueDiscoveryMinTurns)

(***************************************************************************)
(* C30.  In v3 the stage index never decreases across the invocations of   *)
(* a session: once the stage is RAPPORT or later (stage >= 1), no node     *)
(* writes a smaller stage.                                                 *)
(***************************************************************************)
C30_StageNeverDecreases ==
    [][(variant = "v3" /\ stage >= 1) => stage' >= stage]_vars

(***************************************************************************)
(* C37.  In v3 the facts of one user message are merged into the profile   *)
(* at most once: once the latest user message has been merged, no node of  *)
(* the same invocation merges it again or raises the weight of a Value.    *)
(***************************************************************************)
C37_MessageMergedOnce ==
    [][(variant = "v3" /\ last_merges >= 1 /\ invocations' = invocations)
          => /\ last_merges' = last_merges
             /\ \A n \in DOMAIN user_profile.values :
                   n \in DOMAIN user_profile'.values
                      => FloatLE(user_profile'.values[n].weight, user_profile.values[n].weight)]_vars

(***************************************************************************)
(* C38.  In v4 every change of the stage index is an increase by exactly   *)
(* 1, so a session goes through the stages 0, 1, 2, 3, 4, 5 in order       *)
(* without skipping one; final_summary is set only in a session that has   *)
(* left ACTION_PLANNING (stage >= 4, no open action_planning metric).      *)
(***************************************************************************)
C38_StagesInOrder ==
    [][variant = "v4"
          => /\ stage' # stage => stage' = stage + 1
             /\ final_summary' # ""
                   => /\ stage' >= SummaryStage
                      /\ OpenMetrics(stage_metrics', "action_planning") = {}]_vars

\* a session has gone through every stage and holds a summary
C38_Witness ==
    /\ variant = "v4"
    /\ stage = EndStage
    /\ final_summary # ""
    /\ \E i \in DOMAIN stage_metrics :
          stage_metrics[i].stage_name = "action_planning" /\ stage_metrics[i].closed

(***************************************************************************)
(* C39.  In v4 a completion check that decides to remain leaves the        *)
(* session state unchanged, and one that advances changes only the stage   *)
(* index and the end_time of the closing stage's metric: no validator      *)
(* changes the Profile, the message log, a turn_count, final_summary or    *)
(* final_feedback.                                                         *)
(***************************************************************************)
ValidatorPositions ==
    {"validate_rapport", "validate_value_discovery", "validate_action_planning",
     "validate_summary"}

C39_ValidatorFrame ==
    [][(variant = "v4" /\ pc \in ValidatorPositions)
          => /\ user_profile' = user_profile
             /\ messages' = messages
             /\ final_summary' = final_summary
             /\ final_feedback' = final_feedback
             /\ total_turns' = total_turns
             /\ stage' = stage => stage_metrics' = stage_metrics
             /\ Len(stage_metrics') = Len(stage_metrics)
             /\ \A i \in DOMAIN stage_metrics :
                   /\ [stage_metrics'[i] EXCEPT !.closed = FALSE]
                         = [stage_metrics[i] EXCEPT !.closed = FALSE]
                   /\ stage_metrics'[i].closed # stage_metrics[i].closed
                         => stage_metrics[i].stage_name = StageName(stage)]_vars

\* a completion check has just advanced the stage and closed the metric of
\* the stage it left
C39_Witness ==
    /\ variant = "v4"
    /\ pc = "preprocessor"
    /\ lastCheck.advanced
    /\ stage = lastCheck.stage + 1
    /\ \E i \in DOMAIN stage_metrics :
          /\ stage_metrics[i].stage_name = StageName(lastCheck.stage)
          /\ stage_metrics[i].closed
          /\ stage_metrics[i].turn_count >= 1

C34_InvocationReachesEnd ==
    (variant = "v3" /\ pc = "aborted")
        => (gen_failed \/ lastCheck.judgment = "raises")

(***************************************************************************)
(* meta_agent (v1) and meta_agent_v2: the state (meta_agent_v2/state.py),  *)
(* the knowledge store (meta_agent/knowledge.py) and the texts of a        *)
(* session.  A user message of these sessions holds its text itself.       *)
(***************************************************************************)
\* MetaAgentState.target_value_depth (state.py:87)
target_value_depth == 3

\* MetaAgentState.trust_level (state.py:84), which no node writes
trust_level == F0_5

\* a < b on floats
FloatLT(a, b) == ~FloatLE(b, a)

\* a user text that names the value growth and agrees, and one that does neither
GrowthYesText == <<"G", "r", "o", "w", "t", "h", " ", "y", "e", "s">>
PlainText == <<"w">>

\* a turn of the user: the text, and what the text-understanding service
\* answers for it (facts for the text that names a value, no JSON otherwise)
V12Turns ==
    { [text |-> GrowthYesText, response |-> Response(FALSE, FALSE, FullFacts)],
      [text |-> PlainText, response |-> Response(FALSE, FALSE, NotJson)] }

V12FactKeys ==
    {"goals_mentioned", "values_mentioned", "emotional_tone", "obstacles_mentioned",
     "clarifications", "key_phrases"}

\* extract_knowledge (meta_agent/knowledge.py:14-50): only JSONDecodeError is
\* caught, and the fallback keeps the first 100 characters of the text
extract_knowledge_v1(user_response, response) ==
    IF LoadsFails(response)
    THEN JsonObject([k \in V12FactKeys |->
            CASE k = "emotional_tone" -> "neutral"
              [] k = "key_phrases" -> <<Prefix(user_response, 100)>>
              [] OTHER -> <<>>])
    ELSE response.payload

\* UserProfile() (state.py:59-67)
V12EmptyProfile ==
    [goals |-> <<>>,
     values |-> <<>>,
     intent_context |-> [goal_statement |-> <<>>, desired_outcome |-> <<>>, emotional_tone |-> ""],
     suggested_actions |-> <<>>,
     conversation_history |-> <<>>]

\* graph.py:202 (v2 graph.py:322): weight += 0.15
NameBonus(weight) == FloatAdd(weight, F0_15)

\* one iteration of the loop of knowledge.py:79-93: rationale.extend(key_phrases)
AddValueV1(values, value_text, key_phrases) ==
    IF value_text # <<>> /\ Len(value_text) > ValueMinLen
    THEN LET value_name == Strip(Lower(value_text))
             merged == IF value_name \notin DOMAIN values
                       THEN MapSet(values, value_name, Value(value_name, F0_5))
                       ELSE [values EXCEPT ![value_name].weight = Reinforce(@)]
         IN  IF key_phrases # <<>>
             THEN [merged EXCEPT ![value_name].rationale = @ \o key_phrases]
             ELSE merged
    ELSE values

RECURSIVE UpdateValuesV1(_, _, _)
UpdateValuesV1(values, values_mentioned, key_phrases) ==
    IF values_mentioned = <<>> THEN values
    ELSE UpdateValuesV1(AddValueV1(values, Head(values_mentioned), key_phrases),
                        Tail(values_mentioned), key_phrases)

\* knowledge.py:100-104: the obstacles go to every confirmed goal
UpdateObstaclesV1(goals, mentioned) ==
    [i \in DOMAIN goals |->
        IF goals[i].confirmed THEN [goals[i] EXCEPT !.obstacles = @ \o mentioned]
        ELSE goals[i]]

\* update_knowledge_graph (meta_agent/knowledge.py:53-113); key_phrases is
\* never an empty list in the answers above, so key_phrases[0] exists
update_knowledge_graph(profile, facts) ==
    LET key_phrases == Get(facts, "key_phrases", <<>>)
        tone == Get(facts, "emotional_tone", "")
    IN  [profile EXCEPT
            !.goals = UpdateObstaclesV1(
                          UpdateGoalsV3(@, Get(facts, "goals_mentioned", <<>>)),
                          Get(facts, "obstacles_mentioned", <<>>)),
            !.values = UpdateValuesV1(@, Get(facts, "values_mentioned", <<>>), key_phrases),
            !.intent_context.emotional_tone = IF tone # "" THEN tone ELSE @,
            !.conversation_history = Append(@, Get(facts, "key_phrases", <<<<>>>>)[1])]

\* graph.py:74-77 (v2 graph.py:133-136): the intent context of the reflection
UpdateIntentContext(profile, facts) ==
    LET goals_mentioned == Get(facts, "goals_mentioned", <<>>)
        key_phrases == Get(facts, "key_phrases", <<>>)
    IN  [profile EXCEPT
            !.intent_context.goal_statement =
                IF goals_mentioned # <<>> THEN goals_mentioned[1] ELSE @,
            !.intent_context.desired_outcome =
                IF key_phrases # <<>> THEN Prefix(key_phrases, 2) ELSE @]

\* identify_conflicting_values (knowledge.py:116-158) finds a pair: a pattern
\* pair, or else the two heaviest values, whenever there are two values
identify_conflicting_values(profile) == Cardinality(DOMAIN profile.values) >= 2

\* `any(word in str(last_user_msg).lower() for word in [...])`
SaysAny(text, words) == \E word \in words : IsSubstring(word, Lower(text))

Yes == <<"y", "e", "s">>
Correct == <<"c", "o", "r", "r", "e", "c", "t">>
Right == <<"r", "i", "g", "h", "t">>
Exactly == <<"e", "x", "a", "c", "t", "l", "y">>
Accurate == <<"a", "c", "c", "u", "r", "a", "t", "e">>
Captures == <<"c", "a", "p", "t", "u", "r", "e", "s">>

\* graph.py:127 (v2 graph.py:194)
IntentWords == {Yes, Correct, Right, Exactly, Accurate}
\* graph.py:238 (v2 graph.py:376)
ValuesWords == {Yes, Accurate, Right, Correct, Captures}

AICount(msgs) == Cardinality({i \in DOMAIN msgs : msgs[i].role = "ai"})

\* the text of the last user message, the empty text when there is none
LastUserText(msgs) ==
    LET idx == {i \in DOMAIN msgs : msgs[i].role = "human"}
    IN  IF idx = {} THEN <<>> ELSE msgs[CHOOSE i \in idx : \A j \in idx : j <= i].content

\* the state a router of v1 or v2 reads
V12State ==
    [stage |-> stage, messages |-> messages, user_profile |-> user_profile,
     final_summary |-> final_summary, final_feedback |-> final_feedback,
     intent_confirmed |-> intent_confirmed, values_confirmed |-> values_confirmed,
     plan_generated |-> plan_generated, value_depth |-> value_depth,
     stage_complete |-> stage_complete]

(***************************************************************************)
(* The graph of meta_agent (v1), meta_agent/graph.py:438-474: the entry    *)
(* point is stage_1 and route_stage follows every node but feedback.       *)
(***************************************************************************)
\* route_stage (graph.py:383-433)
route_stage(state) ==
    IF state.stage = 8 /\ state.final_feedback = <<>>
    THEN IF HumanCount(state.messages) > AICount(state.messages) THEN "feedback" ELSE "END"
    ELSE IF state.stage = 8 THEN "END"
    ELSE IF state.stage = 1 /\ 1 \notin state.stage_complete
    THEN IF HumanCount(state.messages) > 0 THEN "stage_2" ELSE "END"
    ELSE IF FloatLT(trust_level, F0_5) \/ state.stage = 1 THEN "stage_1"
    ELSE IF ~state.intent_confirmed /\ state.stage <= 2 THEN "stage_2"
    ELSE IF state.value_depth < target_value_depth /\ state.stage <= 3 THEN "stage_3"
    ELSE IF /\ Cardinality(DOMAIN state.user_profile.values) >= 2
            /\ 4 \notin state.stage_complete
            /\ state.stage <= 4
            /\ identify_conflicting_values(state.user_profile)
    THEN "stage_4"
    ELSE IF ~state.values_confirmed /\ state.stage <= 5 THEN "stage_5"
    ELSE IF ~state.plan_generated /\ state.stage <= 6 THEN "stage_6"
    ELSE IF 7 \notin state.stage_complete /\ state.stage = 7 THEN "stage_7"
    ELSE "summary"

\* MetaAgentState() of v1 before the first invocation (state.py:70-105)
InitV1 ==
    /\ variant = "v1"
    /\ stage = 1
    /\ messages = <<>>
    /\ user_profile = V12EmptyProfile
    /\ final_summary = ""
    /\ final_feedback = <<>>
    /\ stage_metrics = <<>>
    /\ total_turns = 0
    /\ pc = "idle"
    /\ extracted = NoFacts
    /\ lastCheck = NoCheck
    /\ only_not_ready = TRUE
    /\ stage_changes = 0
    /\ feedback_turn = "none"
    /\ gen_failed = FALSE
    /\ store_ops = 0
    /\ last_merges = 0
    /\ FlagsInit

\* what no node of the v1 and v2 graphs has
V12Unchanged ==
    UNCHANGED <<variant, stage_metrics, total_turns, lastCheck, only_not_ready,
                stage_changes, feedback_turn, store_ops, last_merges, advances, assessed,
                node_runs, telemetry, parked, defaults, allocated>>

\* graph.invoke: the input's messages are added to the log (add_messages) and
\* the run starts at the entry point (graph.py:456)
V1Invoke(with_message) ==
    /\ variant = "v1"
    /\ pc \in {"idle", "END", "aborted"}
    /\ invocations < MaxInvocations
    /\ ~with_message => HumanCount(messages) = 0
    /\ invocations' = invocations + 1
    /\ \E turn \in V12Turns :
          /\ messages' = IF with_message THEN Append(messages, HumanMessage(turn.text))
                         ELSE messages
          /\ extracted' = IF with_message THEN extract_knowledge_v1(turn.text, turn.response)
                          ELSE extracted
    /\ steps' = 0
    /\ pc' = "stage_1"
    /\ UNCHANGED <<stage, user_profile, final_summary, final_feedback, gen_failed,
                   intent_confirmed, values_confirmed, plan_generated, value_depth,
                   stage_complete>>
    /\ V12Unchanged

\* the run needs a node beyond the recursion limit: GraphRecursionError
V1GraphRecursionError ==
    /\ variant = "v1"
    /\ pc \notin {"idle", "END", "aborted"}
    /\ steps >= RecursionLimit
    /\ pc' = "aborted"
    /\ UNCHANGED <<stage, messages, user_profile, final_summary, final_feedback, extracted,
                   gen_failed, intent_confirmed, values_confirmed, plan_generated,
                   value_depth, stage_complete, steps, invocations>>
    /\ V12Unchanged

\* stage_1_rapport (graph.py:38-56): the generation call is in no try
stage_1_rapport ==
    /\ variant = "v1"
    /\ pc = "stage_1"
    /\ steps < RecursionLimit
    /\ steps' = steps + 1
    /\ \E generated \in V3Generated :
          IF generated
          THEN /\ messages' = Append(messages, AIMessage("question"))
               /\ stage' = 1
               /\ UNCHANGED gen_failed
          ELSE /\ gen_failed' = TRUE
               /\ UNCHANGED <<messages, stage>>
    /\ UNCHANGED <<user_profile, final_summary, final_feedback, extracted, intent_confirmed,
                   values_confirmed, plan_generated, value_depth, stage_complete,
                   invocations>>
    /\ V12Unchanged
    /\ pc' = IF gen_failed' # gen_failed THEN "aborted" ELSE route_stage(V12State')

\* stage_2_reflect (graph.py:58-91): the profile is updated in place before
\* the generation call, which is in no try
stage_2_reflect ==
    /\ variant = "v1"
    /\ pc = "stage_2"
    /\ steps < RecursionLimit
    /\ steps' = steps + 1
    /\ IF HumanCount(messages) = 0
       THEN /\ messages' = Append(messages, AIMessage("fallback"))
            /\ UNCHANGED <<stage, user_profile, gen_failed>>
       ELSE \E generated \in V3Generated :
               /\ user_profile' = UpdateIntentContext(
                                      update_knowledge_graph(user_profile, extracted), extracted)
               /\ IF generated
                  THEN /\ messages' = Append(messages, AIMessage("question"))
                       /\ stage' = 2
                       /\ UNCHANGED gen_failed
                  ELSE /\ gen_failed' = TRUE
                       /\ UNCHANGED <<messages, stage>>
    /\ UNCHANGED <<final_summary, final_feedback, extracted, intent_confirmed,
                   values_confirmed, plan_generated, value_depth, stage_complete,
                   invocations>>
    /\ V12Unchanged
    /\ pc' = IF gen_failed' # gen_failed THEN "aborted" ELSE route_stage(V12State')

NextV1 ==
    \/ \E with_message \in BOOLEAN : V1Invoke(with_message)
    \/ V1GraphRecursionError
    \/ stage_1_rapport
    \/ stage_2_reflect

SpecV1 == InitV1 /\ [][NextV1]_vars

\* C35: an invocation of the v1 graph on a fresh session whose input holds one
\* user message reaches END after finitely many node executions: the run is
\* not ended by the recursion limit, route_stage having selected the same stage
\* node again and again without a new user message
C35_V1InvocationReachesEnd ==
    (variant = "v1" /\ invocations = 1 /\ HumanCount(messages) = 1 /\ pc = "aborted")
        => gen_failed

(***************************************************************************)
(* The graph of meta_agent_v2 (meta_agent_v2/graph.py:729-767): the entry  *)
(* point is the node router, route_entry selects the stage node, and each  *)
(* stage node has its own router.                                          *)
(***************************************************************************)
MaxV2Invocations == 12

\* route_entry (graph.py:546-609)
route_entry(state) ==
    IF state.stage \in {0, 1} /\ AICount(state.messages) = 0 THEN "introduction"
    ELSE IF state.stage = 8 /\ state.final_summary # "" /\ state.final_feedback = <<>>
    THEN IF HumanCount(state.messages) > AICount(state.messages)
         THEN "feedback_collection" ELSE "END"
    ELSE IF state.stage = 1 /\ 1 \in state.stage_complete THEN "intent_clarification"
    ELSE IF state.stage = 1 THEN "rapport_building"
    ELSE IF state.stage = 2 /\ 2 \in state.stage_complete THEN "value_discovery"
    ELSE IF state.stage = 2 THEN "intent_clarification"
    ELSE IF state.stage = 3 /\ 3 \in state.stage_complete THEN "value_tradeoffs"
    ELSE IF state.stage = 3 THEN "value_discovery"
    ELSE IF state.stage = 4 /\ 4 \in state.stage_complete THEN "value_confirmation"
    ELSE IF state.stage = 4 THEN "value_tradeoffs"
    ELSE IF state.stage = 5 /\ 5 \in state.stage_complete THEN "action_planning"
    ELSE IF state.stage = 5 THEN "value_confirmation"
    ELSE IF state.stage = 6 /\ 6 \in state.stage_complete THEN "plan_refinement"
    ELSE IF state.stage = 6 THEN "action_planning"
    ELSE IF state.stage = 7 /\ 7 \in state.stage_complete THEN "summary_generation"
    ELSE IF state.stage = 7 THEN "plan_refinement"
    ELSE "introduction"

\* route_from_introduction (graph.py:612-618)
route_from_introduction(state) ==
    IF HumanCount(state.messages) > 0 THEN "rapport_building" ELSE "END"

\* route_from_rapport_building, route_from_intent_clarification,
\* route_from_value_tradeoffs, route_from_value_confirmation,
\* route_from_action_planning, route_from_plan_refinement and
\* route_from_summary_generation (graph.py:621-719): the next node when the
\* log holds more user messages than assistant messages
route_when_answered(state, next_node) ==
    IF HumanCount(state.messages) > AICount(state.messages) THEN next_node ELSE "END"

\* route_from_value_discovery (graph.py:645-659)
route_from_value_discovery(state) ==
    IF HumanCount(state.messages) <= AICount(state.messages) THEN "END"
    ELSE IF state.value_depth < target_value_depth THEN "value_discovery"
    ELSE "value_tradeoffs"

\* graph.py:320-322 (v1 graph.py:200-202): every value whose name is in the
\* lower-cased text of the user gets the bonus
NameBonuses(values, text) ==
    [name \in DOMAIN values |->
        IF IsSubstring(name, Lower(text))
        THEN [values[name] EXCEPT !.weight = NameBonus(@)]
        ELSE values[name]]

\* 0.6 = 0x1.3333333333333p-1
F0_6 == <<161061273, 161061272>>

\* graph.py:379-381: the values heavier than 0.6 are confirmed
ConfirmTopValues(values) ==
    [name \in DOMAIN values |->
        IF FloatLT(F0_6, values[name].weight)
        THEN [values[name] EXCEPT !.confirmed = TRUE]
        ELSE values[name]]

\* graph.py:418: the names of the three heaviest values
TopValues(values) ==
    IF Cardinality(DOMAIN values) <= 3 THEN DOMAIN values
    ELSE CHOOSE top \in SUBSET DOMAIN values :
            /\ Cardinality(top) = 3
            /\ \A a \in top : \A b \in DOMAIN values \ top :
                  FloatLE(values[b].weight, values[a].weight)

\* graph.py:420-423
PlanAction(values) ==
    [description |-> "Action plan generated", linked_values |-> TopValues(values),
     user_feedback |-> <<>>, fit_score |-> "0.8"]

\* MetaAgentState() of v2 before the first invocation (state.py:70-105)
InitV2 ==
    /\ variant = "v2"
    /\ stage = 1
    /\ messages = <<>>
    /\ user_profile = V12EmptyProfile
    /\ final_summary = ""
    /\ final_feedback = <<>>
    /\ stage_metrics = <<>>
    /\ total_turns = 0
    /\ pc = "idle"
    /\ extracted = NoFacts
    /\ lastCheck = NoCheck
    /\ only_not_ready = TRUE
    /\ stage_changes = 0
    /\ feedback_turn = "none"
    /\ gen_failed = FALSE
    /\ store_ops = 0
    /\ last_merges = 0
    /\ FlagsInit

\* graph.invoke on the session: the input's messages are added to the log
\* (add_messages) and the run starts at the entry point (graph.py:747)
V2Invoke(with_message) ==
    /\ variant = "v2"
    /\ pc \in {"idle", "END", "aborted"}
    /\ invocations < MaxV2Invocations
    /\ ~with_message => HumanCount(messages) = 0
    /\ invocations' = invocations + 1
    /\ \E turn \in V12Turns :
          /\ messages' = IF with_message THEN Append(messages, HumanMessage(turn.text))
                         ELSE messages
          /\ extracted' = IF with_message THEN extract_knowledge_v1(turn.text, turn.response)
                          ELSE extracted
    /\ steps' = 0
    /\ pc' = "router"
    /\ UNCHANGED <<stage, user_profile, final_summary, final_feedback, gen_failed,
                   intent_confirmed, values_confirmed, plan_generated, value_depth,
                   stage_complete>>
    /\ V12Unchanged

\* one node execution of the running invocation, at the node called name
V2Node(name) ==
    /\ variant = "v2"
    /\ pc = name
    /\ steps < RecursionLimit
    /\ steps' = steps + 1
    /\ UNCHANGED <<extracted, invocations>>
    /\ V12Unchanged

\* a generation call of a stage node raises (no node has a try): the run ends
\* with the profile as the node had updated it in place, or as it was
V2Raises(updated) ==
    /\ gen_failed' = TRUE
    /\ user_profile' \in {user_profile, updated}
    /\ pc' = "aborted"
    /\ UNCHANGED <<messages, stage, stage_complete, value_depth, intent_confirmed,
                   values_confirmed, plan_generated>>

\* the node router, `lambda state: state`, and its conditional edge (graph.py:732, 750)
router ==
    /\ V2Node("router")
    /\ pc' = route_entry(V12State)
    /\ UNCHANGED <<stage, messages, user_profile, final_summary, final_feedback, gen_failed,
                   intent_confirmed, values_confirmed, plan_generated, value_depth,
                   stage_complete>>

\* introduction (graph.py:42-60)
introduction ==
    /\ V2Node("introduction")
    /\ messages' = Append(messages, AIMessage("introduction"))
    /\ stage' = 0
    /\ UNCHANGED <<user_profile, final_summary, final_feedback, gen_failed, intent_confirmed,
                   values_confirmed, plan_generated, value_depth, stage_complete>>
    /\ pc' = route_from_introduction(V12State')

\* rapport_building (graph.py:64-113)
rapport_building ==
    /\ V2Node("rapport_building")
    /\ UNCHANGED <<final_summary, final_feedback, intent_confirmed, values_confirmed,
                   plan_generated, value_depth>>
    /\ IF HumanCount(messages) = 0
       THEN /\ messages' = Append(messages, AIMessage("fallback"))
            /\ UNCHANGED <<stage, user_profile, gen_failed, stage_complete>>
            /\ pc' = route_when_answered(V12State', "intent_clarification")
       ELSE LET updated == update_knowledge_graph(user_profile, extracted)
            IN  \E generated \in V3Generated :
                   IF generated
                   THEN /\ user_profile' = updated
                        /\ messages' = Append(messages, AIMessage("question"))
                        /\ stage' = 1
                        /\ stage_complete' = stage_complete \cup {1}
                        /\ UNCHANGED gen_failed
                        /\ pc' = route_when_answered(V12State', "intent_clarification")
                   ELSE V2Raises(updated)

\* intent_clarification (graph.py:117-170)
intent_clarification ==
    /\ V2Node("intent_clarification")
    /\ UNCHANGED <<final_summary, final_feedback, intent_confirmed, values_confirmed,
                   plan_generated, value_depth>>
    /\ IF HumanCount(messages) = 0
       THEN /\ messages' = Append(messages, AIMessage("fallback"))
            /\ UNCHANGED <<stage, user_profile, gen_failed, stage_complete>>
            /\ pc' = route_when_answered(V12State', "value_discovery")
       ELSE LET updated == UpdateIntentContext(
                               update_knowledge_graph(user_profile, extracted), extracted)
            IN  \E generated \in V3Generated :
                   IF generated
                   THEN /\ user_profile' = updated
                        /\ messages' = Append(messages, AIMessage("question"))
                        /\ stage' = 2
                        /\ stage_complete' = stage_complete \cup {2}
                        /\ UNCHANGED gen_failed
                        /\ pc' = route_when_answered(V12State', "value_discovery")
                   ELSE V2Raises(updated)

\* value_discovery (graph.py:174-243); the router has put a user message in
\* front of every stage node from here on
value_discovery ==
    /\ V2Node("value_discovery")
    /\ UNCHANGED <<final_summary, final_feedback, values_confirmed, plan_generated>>
    /\ LET merged == update_knowledge_graph(user_profile, extracted)
           confirms == stage = 2 /\ SaysAny(LastUserText(messages), IntentWords)
           updated == IF confirms /\ merged.goals # <<>>
                      THEN [merged EXCEPT !.goals[1].confirmed = TRUE]
                      ELSE merged
       IN  \E generated \in V3Generated :
              IF generated
              THEN /\ user_profile' = updated
                   /\ intent_confirmed' = (intent_confirmed \/ confirms)
                   /\ messages' = Append(messages, AIMessage("question"))
                   /\ stage' = 3
                   /\ value_depth' = value_depth + 1
                   /\ stage_complete' = IF value_depth + 1 >= target_value_depth
                                        THEN stage_complete \cup {3} ELSE stage_complete
                   /\ UNCHANGED gen_failed
                   /\ pc' = route_from_value_discovery(V12State')
              ELSE V2Raises(updated)

\* value_tradeoffs (graph.py:247-303): without a conflict the node returns
\* before the generation call and emits no message
value_tradeoffs ==
    /\ V2Node("value_tradeoffs")
    /\ UNCHANGED <<final_summary, final_feedback, intent_confirmed, values_confirmed,
                   plan_generated, value_depth>>
    /\ LET updated == update_knowledge_graph(user_profile, extracted)
       IN  IF ~identify_conflicting_values(updated)
           THEN /\ user_profile' = updated
                /\ stage' = 4
                /\ stage_complete' = stage_complete \cup {4}
                /\ UNCHANGED <<messages, gen_failed>>
                /\ pc' = route_when_answered(V12State', "value_confirmation")
           ELSE \E generated \in V3Generated :
                   IF generated
                   THEN /\ user_profile' = updated
                        /\ messages' = Append(messages, AIMessage("question"))
                        /\ stage' = 4
                        /\ stage_complete' = stage_complete \cup {4}
                        /\ UNCHANGED gen_failed
                        /\ pc' = route_when_answered(V12State', "value_confirmation")
                   ELSE V2Raises(updated)

\* value_confirmation (graph.py:307-360)
value_confirmation ==
    /\ V2Node("value_confirmation")
    /\ UNCHANGED <<final_summary, final_feedback, intent_confirmed, values_confirmed,
                   plan_generated, value_depth>>
    /\ LET merged == update_knowledge_graph(user_profile, extracted)
           updated == [merged EXCEPT !.values = NameBonuses(@, LastUserText(messages))]
       IN  \E generated \in V3Generated :
              IF generated
              THEN /\ user_profile' = updated
                   /\ messages' = Append(messages, AIMessage("question"))
                   /\ stage' = 5
                   /\ stage_complete' = stage_complete \cup {5}
                   /\ UNCHANGED gen_failed
                   /\ pc' = route_when_answered(V12State', "action_planning")
              ELSE V2Raises(updated)

\* action_planning (graph.py:364-432)
action_planning ==
    /\ V2Node("action_planning")
    /\ UNCHANGED <<final_summary, final_feedback, intent_confirmed, value_depth>>
    /\ LET merged == update_knowledge_graph(user_profile, extracted)
           confirms == SaysAny(LastUserText(messages), ValuesWords)
           updated == IF confirms
                      THEN [merged EXCEPT !.values = ConfirmTopValues(@)]
                      ELSE merged
       IN  \E generated \in V3Generated :
              IF generated
              THEN /\ user_profile' = [updated EXCEPT !.suggested_actions =
                                          Append(@, PlanAction(updated.values))]
                   /\ values_confirmed' = (values_confirmed \/ confirms)
                   /\ messages' = Append(messages, AIMessage("plan"))
                   /\ stage' = 6
                   /\ plan_generated' = TRUE
                   /\ stage_complete' = stage_complete \cup {6}
                   /\ UNCHANGED gen_failed
                   /\ pc' = route_when_answered(V12State', "plan_refinement")
              ELSE V2Raises(updated)

\* plan_refinement (graph.py:436-486)
plan_refinement ==
    /\ V2Node("plan_refinement")
    /\ UNCHANGED <<final_summary, final_feedback, intent_confirmed, values_confirmed,
                   plan_generated, value_depth>>
    /\ LET merged == update_knowledge_graph(user_profile, extracted)
           n == Len(merged.suggested_actions)
           updated == IF n > 0
                      THEN [merged EXCEPT !.suggested_actions[n].user_feedback =
                                              LastUserText(messages)]
                      ELSE merged
       IN  \E generated \in V3Generated :
              IF generated
              THEN /\ user_profile' = updated
                   /\ messages' = Append(messages, AIMessage("question"))
                   /\ stage' = 7
                   /\ stage_complete' = stage_complete \cup {7}
                   /\ UNCHANGED gen_failed
                   /\ pc' = route_when_answered(V12State', "summary_generation")
              ELSE V2Raises(updated)

\* summary_generation (graph.py:490-498); create_final_summary calls no service
summary_generation ==
    /\ V2Node("summary_generation")
    /\ messages' = Append(messages, AIMessage("summary"))
    /\ final_summary' = "summary"
    /\ stage' = 8
    /\ UNCHANGED <<user_profile, final_feedback, gen_failed, intent_confirmed,
                   values_confirmed, plan_generated, value_depth, stage_complete>>
    /\ pc' = route_when_answered(V12State', "feedback_collection")

\* feedback_collection (graph.py:502-540) and its edge to END (graph.py:764)
feedback_collection ==
    /\ V2Node("feedback_collection")
    /\ IF HumanCount(messages) > 0
       THEN /\ final_feedback' = LastUserText(messages)
            /\ messages' = Append(messages, AIMessage("thanks"))
       ELSE UNCHANGED <<final_feedback, messages>>
    /\ pc' = "END"
    /\ UNCHANGED <<stage, user_profile, final_summary, gen_failed, intent_confirmed,
                   values_confirmed, plan_generated, value_depth, stage_complete>>

NextV2 ==
    \/ \E with_message \in BOOLEAN : V2Invoke(with_message)
    \/ router
    \/ introduction
    \/ rapport_building
    \/ intent_clarification
    \/ value_discovery
    \/ value_tradeoffs
    \/ value_confirmation
    \/ action_planning
    \/ plan_refinement
    \/ summary_generation
    \/ feedback_collection

SpecV2 == InitV2 /\ [][NextV2]_vars

\* the position of the first summary in the log, 0 when there is none
SummaryIndexV2 ==
    LET idx == {i \in DOMAIN messages : messages[i].kind = "summary"}
    IN  IF idx = {} THEN 0 ELSE CHOOSE i \in idx : \A j \in idx : i <= j

\* the positions of the user messages that follow the first summary
AfterSummaryV2 ==
    {j \in DOMAIN messages : j > SummaryIndexV2 /\ messages[j].role = "human"}

\* C36: in v2, once summary_generation has set final_summary, the run of the
\* next user message is routed to feedback_collection and records the text of
\* that message as final_feedback, whatever the earlier stage nodes emitted
C36_V2FeedbackFollowsSummary ==
    (/\ variant = "v2"
     /\ pc = "END"
     /\ SummaryIndexV2 > 0
     /\ AfterSummaryV2 # {})
        => LET first == CHOOSE j \in AfterSummaryV2 : \A k \in AfterSummaryV2 : j <= k
           IN  final_feedback = messages[first].content

\* C31: in v1 and v2 the weight of every Value stays within [0, 1] after every
\* stage node, value_confirmation (stage_5_reflection in v1) on a text that
\* names a known value included
C31_V12WeightsWithinUnit ==
    \A name \in DOMAIN user_profile.values :
        /\ FloatLE(FZero, user_profile.values[name].weight)
        /\ FloatLE(user_profile.values[name].weight, F1_0)

(***************************************************************************)
(* Two sessions of meta_agent_v4 served by one process.  The variables of  *)
(* the v4 controller are the session whose node runs next; the other       *)
(* session is suspended between two of its nodes.  The nodes write the     *)
(* profile and the metrics list in place (knowledge.py:99-157,             *)
(* utils.py:136-152) and reach them only through their own state object,   *)
(* so what a suspended session reads afterwards is its own object, unless  *)
(* its constructor was handed an object that the running session holds.    *)
(***************************************************************************)
\* the suspended form of the running session
Suspended ==
    [session |-> "suspended", stage |-> stage, messages |-> messages,
     user_profile |-> user_profile, final_summary |-> final_summary,
     final_feedback |-> final_feedback, stage_metrics |-> stage_metrics,
     total_turns |-> total_turns, pc |-> pc, extracted |-> extracted,
     lastCheck |-> lastCheck, only_not_ready |-> only_not_ready,
     stage_changes |-> stage_changes, feedback_turn |-> feedback_turn,
     gen_failed |-> gen_failed, last_merges |-> last_merges, telemetry |-> telemetry,
     defaults |-> defaults]

\* the two sessions hold the same object in field f
SharedWith(ids, f) == ids[f] = defaults[f]

\* the profile a session whose objects are ids reads, own being the content
\* of the objects only it holds
ProfileOf(ids, own) ==
    IF SharedWith(ids, "user_profile") THEN user_profile
    ELSE [goals |-> IF SharedWith(ids, "goals") THEN user_profile.goals ELSE own.goals,
          values |-> IF SharedWith(ids, "values") THEN user_profile.values ELSE own.values,
          intent_context |-> IF SharedWith(ids, "intent_context")
                             THEN user_profile.intent_context ELSE own.intent_context,
          suggested_actions |-> IF SharedWith(ids, "suggested_actions")
                                THEN user_profile.suggested_actions
                                ELSE own.suggested_actions]

\* the metrics list such a session reads
MetricsOf(ids, own) == IF SharedWith(ids, "stage_metrics") THEN stage_metrics ELSE own

\* what the suspended session reads now: add_messages builds a new list for
\* every update, so no node writes a message list in place
OtherView ==
    [stage |-> parked.stage,
     messages |-> parked.messages,
     user_profile |-> ProfileOf(parked.defaults, parked.user_profile),
     stage_metrics |-> MetricsOf(parked.defaults, parked.stage_metrics)]

\* a second session is created while the first is between two nodes:
\* MetaAgentState() (state.py:80-103)
StartSession ==
    /\ variant = "v4"
    /\ parked = NoSession
    /\ parked' = Suspended
    /\ defaults' = NewDefaults(allocated)
    /\ allocated' = allocated + Len(DefaultFields)
    /\ stage' = 0
    /\ messages' = <<>>
    /\ user_profile' = ProfileOf(defaults', EmptyProfile)
    /\ final_summary' = ""
    /\ final_feedback' = 0
    /\ stage_metrics' = MetricsOf(defaults', <<>>)
    /\ total_turns' = 0
    /\ pc' = "idle"
    /\ extracted' = NoFacts
    /\ lastCheck' = NoCheck
    /\ only_not_ready' = TRUE
    /\ stage_changes' = 0
    /\ feedback_turn' = "none"
    /\ gen_failed' = FALSE
    /\ last_merges' = 0
    /\ telemetry' = "none"
    /\ UNCHANGED <<variant, store_ops, intent_confirmed, values_confirmed, plan_generated,
                   steps, invocations, advances, assessed, node_runs, value_depth,
                   stage_complete>>

\* the process turns to the other session: the next node that runs is its
Switch ==
    /\ variant = "v4"
    /\ parked # NoSession
    /\ parked' = Suspended
    /\ defaults' = parked.defaults
    /\ stage' = OtherView.stage
    /\ messages' = OtherView.messages
    /\ user_profile' = OtherView.user_profile
    /\ stage_metrics' = OtherView.stage_metrics
    /\ final_summary' = parked.final_summary
    /\ final_feedback' = parked.final_feedback
    /\ total_turns' = parked.total_turns
    /\ pc' = parked.pc
    /\ extracted' = parked.extracted
    /\ lastCheck' = parked.lastCheck
    /\ only_not_ready' = parked.only_not_ready
    /\ stage_changes' = parked.stage_changes
    /\ feedback_turn' = parked.feedback_turn
    /\ gen_failed' = parked.gen_failed
    /\ last_merges' = parked.last_merges
    /\ telemetry' = parked.telemetry
    /\ UNCHANGED <<variant, store_ops, intent_confirmed, values_confirmed, plan_generated,
                   steps, invocations, advances, assessed, node_runs, value_depth,
                   stage_complete, allocated>>

\* the services of the two sessions answer and the client sends text: the
\* extraction gives the facts, the judgments are parsed as ready, the
\* generation calls return, the plan lists its actions, the trace is logged
ServicesAnswer ==
    /\ gen_failed' = FALSE
    /\ lastCheck'.judgment \in {"none", "ready"}
    /\ \A i \in DOMAIN messages' : messages'[i].role = "human" => messages'[i].content # 0
    /\ telemetry' # "failed"
    /\ pc = "action_planning" => Len(user_profile'.suggested_actions) >= MinActions
    /\ extracted' = NoFacts \/ IsFacts(extracted')

\* the client resumes an interrupted run with Reply and invokes the graph
\* anew only when no run of the session is interrupted
SessionInvoke ==
    /\ pc \in {"idle", "END"}
    /\ \E with_message \in BOOLEAN : Invoke(with_message)
    /\ ServicesAnswer
SessionPreprocessor == Preprocessor /\ ServicesAnswer
SessionIntroduction == Introduction /\ ServicesAnswer
SessionRapportBuilding == RapportBuilding /\ ServicesAnswer
SessionValueDiscovery == ValueDiscovery /\ ServicesAnswer
SessionActionPlanning == ActionPlanning /\ ServicesAnswer
SessionSummaryFeedback == SummaryFeedback /\ ServicesAnswer
SessionReply == Reply /\ ServicesAnswer
SessionValidateRapport == ValidateRapport /\ ServicesAnswer
SessionValidateValueDiscovery == ValidateValueDiscovery /\ ServicesAnswer
SessionValidateActionPlanning == ValidateActionPlanning /\ ServicesAnswer
SessionValidateSummary == ValidateSummary /\ ServicesAnswer
SessionFinalize == Finalize /\ ServicesAnswer

NextSessions ==
    \/ StartSession
    \/ Switch
    \/ SessionInvoke
    \/ SessionPreprocessor
    \/ SessionIntroduction
    \/ SessionRapportBuilding
    \/ SessionValueDiscovery
    \/ SessionActionPlanning
    \/ SessionSummaryFeedback
    \/ SessionReply
    \/ SessionValidateRapport
    \/ SessionValidateValueDiscovery
    \/ SessionValidateActionPlanning
    \/ SessionValidateSummary
    \/ SessionFinalize

SpecSessions == Init /\ [][NextSessions]_vars

\* C32: with two v4 sessions interleaved step by step in any order, the two
\* sessions never hold the same default object (profile, goal and value maps,
\* context, action list, metrics list, message list), and a step of the
\* running session leaves the stage, the profile, the stage metrics and the
\* message log of the suspended session as they were.
C32_SessionsIsolated ==
    /\ [](parked # NoSession =>
            \A f, g \in DOMAIN defaults : defaults[f] # parked.defaults[g])
    /\ [][(parked # NoSession /\ parked' = parked) => OtherView' = OtherView]_vars

\* both sessions have conversed and written their own profile and metrics
C32_Witness ==
    /\ parked # NoSession
    /\ Len(parked.messages) > 2
    /\ Len(messages) > 2
    /\ parked.user_profile.values # <<>>
    /\ user_profile.values # <<>>
    /\ parked.stage # stage
    /\ Len(parked.stage_metrics) > 0
    /\ Len(stage_metrics) > Len(parked.stage_metrics)

====
